---- MODULE Spec2Model ----
(***************************************************************************)
(* Request-orchestration gateway for conversational AI agents: the Express *)
(* server and the Fastify server of the repository, their validation       *)
(* middleware, the invite / remove handlers and the provisioning service   *)
(* they call.                                                              *)
(*                                                                         *)
(* Strings that the code inspects character by character (paths, ids,      *)
(* channel names) are sequences of one-character strings.  Bodies are the  *)
(* JSON values the framework's JSON parser hands to the middleware.        *)
(***************************************************************************)
EXTENDS Integers, Sequences, FiniteSets, TLC

VARIABLES
  server,   \* the deployment: "express" or "fastify"
  env,      \* process.env
  running,  \* whether the server started to listen
  pc,       \* "idle", "awaiting" (suspended at await fetch) or "done"
  req,      \* the request being handled
  checks,   \* the middleware that ran for it, in order
  handler,  \* the route handler that ran for it, "" when none did
  call,     \* the call to the provisioning service it is waiting for
  calls,    \* the number of calls fetch sent for it
  answer,   \* what the provisioning service answered, or how fetch failed
  now,      \* what Date.now() returned to the handler, -1 when it was not read
  random,   \* what Math.random() returned to generateChannelName
  signed,   \* the credential buildTokenWithUid signed for the request
  resp,     \* the response sent to the client
  inflight, \* the requests being handled at once, by connection
  log       \* what the provisioning service has done so far

vars == <<server, env, running, pc, req, checks, handler, call, calls,
          answer, now, random, signed, resp, inflight, log>>

\* the state of the one request followed step by step
one == <<pc, req, checks, handler, call, calls, answer, now, random, signed,
         resp>>

\* the state of the requests handled at once
many == <<inflight, log>>

(***************************************************************************)
(* Characters and strings                                                  *)
(***************************************************************************)
UpperChars == <<"A","B","C","D","E","F","G","H","I","J","K","L","M",
                "N","O","P","Q","R","S","T","U","V","W","X","Y","Z">>
LowerChars == <<"a","b","c","d","e","f","g","h","i","j","k","l","m",
                "n","o","p","q","r","s","t","u","v","w","x","y","z">>
DigitChars == <<"0","1","2","3","4","5","6","7","8","9">>

Range(f) == {f[i] : i \in DOMAIN f}

\* the character class [a-zA-Z]
IsLetter(c) == c \in Range(UpperChars) \cup Range(LowerChars)
\* the character class \d
IsDigit(c) == c \in Range(DigitChars)
\* the characters String.prototype.trim removes
IsSpace(c) == c \in {" ", "\t", "\n", "\r"}

LowerChar(c) ==
  IF c \in Range(UpperChars)
  THEN LowerChars[CHOOSE i \in DOMAIN UpperChars : UpperChars[i] = c]
  ELSE c

ToLowerCase(s) == [i \in DOMAIN s |-> LowerChar(s[i])]

StartsWith(s, p) == Len(s) >= Len(p) /\ SubSeq(s, 1, Len(p)) = p

\* s.trim() === ''
TrimIsEmpty(s) == \A i \in DOMAIN s : IsSpace(s[i])

\* /[a-zA-Z]/.test(s)
HasLetter(s) == \E i \in DOMAIN s : IsLetter(s[i])

\* /^[a-zA-Z0-9-]+$/.test(s)
IsAlnumHyphen(s) ==
  /\ Len(s) >= 1
  /\ \A i \in DOMAIN s : IsLetter(s[i]) \/ IsDigit(s[i]) \/ s[i] = "-"

\* /^\d+$/.test(s)
IsDigits(s) == Len(s) >= 1 /\ \A i \in DOMAIN s : IsDigit(s[i])

Rep(c, n) == [i \in 1..n |-> c]

\* Number.prototype.toString of a non-negative integer
RECURSIVE DecStr(_)
DecStr(n) ==
  IF n < 10 THEN <<DigitChars[n + 1]>>
  ELSE DecStr(n \div 10) \o <<DigitChars[(n % 10) + 1]>>

\* the number a string of decimal digits denotes
RECURSIVE DecVal(_)
DecVal(s) ==
  IF s = <<>> THEN 0
  ELSE 10 * DecVal(SubSeq(s, 1, Len(s) - 1))
         + (CHOOSE d \in 0..9 : DigitChars[d + 1] = s[Len(s)])

\* s.substring(a, b) for 0 <= a <= b
Substring(s, a, b) ==
  SubSeq(s, (IF a < Len(s) THEN a ELSE Len(s)) + 1,
            IF b < Len(s) THEN b ELSE Len(s))

(***************************************************************************)
(* JSON values.  A number k/2 is kept as its double k, so that integers,   *)
(* negative numbers and non-integers are all present.                      *)
(***************************************************************************)
Undefined == [t |-> "undefined"]
Null      == [t |-> "null"]
Str(s)    == [t |-> "string", s |-> s]
Num(k)    == [t |-> "number", k |-> k]
IntNum(n) == Num(2 * n)
Bool(b)   == [t |-> "boolean", b |-> b]
\* a plain object such as {"a": 1}
Obj       == [t |-> "object"]
\* an array of strings (the modality lists)
Arr(a)    == [t |-> "array", a |-> a]

\* !v
Falsy(v) ==
  \/ v.t \in {"undefined", "null"}
  \/ v.t = "string" /\ v.s = <<>>
  \/ v.t = "number" /\ v.k = 0
  \/ v.t = "boolean" /\ ~v.b

\* typeof v
TypeOf(v) ==
  CASE v.t = "undefined" -> "undefined"
    [] v.t = "string"    -> "string"
    [] v.t = "number"    -> "number"
    [] v.t = "boolean"   -> "boolean"
    [] OTHER             -> "object"

\* the number NaN
NaN == [t |-> "number", k |-> 0, nan |-> TRUE]

\* parseInt(s): the integer that the longest prefix of s made of an optional
\* sign and decimal digits denotes, NaN when that prefix has no digit (the
\* strings tried have no leading white space, which parseInt would skip)
parseInt(s) ==
  LET neg == Len(s) >= 1 /\ s[1] = "-"
      body == IF Len(s) >= 1 /\ s[1] \in {"-", "+"}
              THEN SubSeq(s, 2, Len(s)) ELSE s
      n == CHOOSE i \in 0..Len(body) :
             /\ \A j \in 1..i : IsDigit(body[j])
             /\ i = Len(body) \/ ~IsDigit(body[i + 1])
  IN
  IF n = 0 THEN NaN
  ELSE IntNum((IF neg THEN -1 ELSE 1) * DecVal(SubSeq(body, 1, n)))

\* Number.isInteger(v)
IsInteger(v) == v.k % 2 = 0

Abs(k) == IF k < 0 THEN -k ELSE k

\* v.toString() has no receiver for undefined and null: it throws TypeError
ToStringThrows(v) == v.t \in {"undefined", "null"}

\* v.toString()
toString(v) ==
  CASE v.t = "string"  -> v.s
    [] v = NaN         -> <<"N","a","N">>
    [] v.t = "number"  ->
         (IF v.k < 0 THEN <<"-">> ELSE <<>>)
           \o DecStr(Abs(v.k) \div 2)
           \o (IF v.k % 2 = 0 THEN <<>> ELSE <<".", "5">>)
    [] v.t = "boolean" -> IF v.b THEN <<"t","r","u","e">>
                                 ELSE <<"f","a","l","s","e">>
    [] OTHER           -> <<"[","o","b","j","e","c","t"," ",
                            "O","b","j","e","c","t","]">>

(***************************************************************************)
(* Configuration: process.env.  A key that is unset (or set to the empty   *)
(* string) reads as "", which is what the code's !process.env.X tests.     *)
(***************************************************************************)
EnvValues ==
  [ AGORA_APP_ID             |-> "app-id",
    AGORA_APP_CERTIFICATE    |-> "app-certificate",
    AGORA_CONVO_AI_BASE_URL  |-> "https://convo.example/v2/projects",
    AGORA_CUSTOMER_ID        |-> "customer-id",
    AGORA_CUSTOMER_SECRET    |-> "customer-secret",
    AGENT_UID                |-> "agent-uid",
    LLM_URL                  |-> "https://llm.example/v1/chat",
    LLM_TOKEN                |-> "llm-token",
    LLM_MODEL                |-> "llm-model",
    INPUT_MODALITIES         |-> "text,audio",
    OUTPUT_MODALITIES        |-> "audio",
    TTS_VENDOR               |-> "microsoft",
    MICROSOFT_TTS_KEY        |-> "ms-key",
    MICROSOFT_TTS_REGION     |-> "ms-region",
    MICROSOFT_TTS_VOICE_NAME |-> "ms-voice",
    MICROSOFT_TTS_RATE       |-> "1.1",
    MICROSOFT_TTS_VOLUME     |-> "70",
    ELEVENLABS_API_KEY       |-> "el-key",
    ELEVENLABS_VOICE_ID      |-> "el-voice",
    ELEVENLABS_MODEL_ID      |-> "el-model" ]

Keys == DOMAIN EnvValues

\* the values TTS_VENDOR takes when it is set; only the first two are
\* members of the TTSVendor enum
Vendors == {"microsoft", "elevenlabs", "google"}

\* the largest number of keys a configuration leaves unset
MaxMissing == 1

RECURSIVE KeySets(_)
KeySets(n) ==
  IF n = 0 THEN {{}}
  ELSE LET P == KeySets(n - 1) IN P \cup {p \cup {k} : p \in P, k \in Keys}

EnvOf(vendor, missing) ==
  [k \in Keys |->
     IF k \in missing THEN ""
     ELSE IF k = "TTS_VENDOR" THEN vendor
     ELSE EnvValues[k]]

Envs == {EnvOf(v, m) : v \in Vendors, m \in KeySets(MaxMissing)}

\* !process.env.K
Unset(e, k) == e[k] = ""

(***************************************************************************)
(* Responses.  An error message is a fixed text, followed where the code   *)
(* interpolates one by a status code (n) or a string (s).                  *)
(***************************************************************************)
Msg(text)     == [text |-> text, n |-> -1, s |-> ""]
MsgN(text, n) == [text |-> text, n |-> n, s |-> ""]
MsgS(text, s) == [text |-> text, n |-> -1, s |-> s]

Reply(status, body) == [status |-> status, body |-> body]
ErrorReply(status, m) == Reply(status, [error |-> m])

\* next(): the middleware sends nothing and passes the request on
Next_ == Reply(0, [next |-> TRUE])
NoReply == Reply(-1, [none |-> TRUE])

(***************************************************************************)
(* Requests                                                                *)
(***************************************************************************)
NoBody == [t |-> "nobody"]

\* a JSON object body; a field that is Undefined is a key the object lacks,
\* extra says whether the object has a key other than the five named ones
Body(rid, chan, aid, inm, outm, extra) ==
  [ t |-> "object", requester_id |-> rid, channel_name |-> chan,
    agent_id |-> aid, input_modalities |-> inm, output_modalities |-> outm,
    extra |-> extra ]

BodyFields ==
  {"requester_id", "channel_name", "agent_id",
   "input_modalities", "output_modalities"}

\* Object.keys(body).length
NumKeys(b) ==
  Cardinality({f \in BodyFields : b[f] # Undefined})
    + (IF b.extra THEN 1 ELSE 0)

\* !body || Object.keys(body).length === 0
BodyIsEmpty(b) == b = NoBody \/ NumKeys(b) = 0

\* a body field; a request without a body is parsed to {} by express.json()
Field(b, f) == IF b = NoBody THEN Undefined ELSE b[f]

NoContentType == [type |-> "", params |-> ""]
ContentType(type, params) == [type |-> type, params |-> params]

(***************************************************************************)
(* URLs.  Express tests req.path (the path without the query string);      *)
(* Fastify tests request.url (the path with the query string).             *)
(***************************************************************************)
PathAgent  == <<"/","a","g","e","n","t">>
PathInvite == PathAgent \o <<"/","i","n","v","i","t","e">>
PathRemove == PathAgent \o <<"/","r","e","m","o","v","e">>
PathPing   == <<"/","p","i","n","g">>
PathToken  == <<"/","t","o","k","e","n">>

\* req.path
ReqPath(r) == r.path
\* request.url
ReqUrl(r) == r.path \o r.query

(***************************************************************************)
(* Express middleware: express/src/utils/validation.ts                     *)
(***************************************************************************)
validateEnvironment(e, path) ==
  IF Unset(e, "AGORA_APP_ID") \/ Unset(e, "AGORA_APP_CERTIFICATE")
  THEN ErrorReply(500, Msg("Agora credentials are not set"))
  ELSE IF ~StartsWith(path, PathAgent) THEN Next_
  ELSE IF \/ Unset(e, "AGORA_CONVO_AI_BASE_URL")
          \/ Unset(e, "AGORA_CUSTOMER_ID")
          \/ Unset(e, "AGORA_CUSTOMER_SECRET")
  THEN ErrorReply(500, Msg("Agora Conversation AI credentials are not set"))
  ELSE IF Unset(e, "LLM_URL") \/ Unset(e, "LLM_TOKEN")
  THEN ErrorReply(500, Msg("LLM configuration is not set"))
  ELSE IF Unset(e, "TTS_VENDOR")
  THEN ErrorReply(500, Msg("TTS_VENDOR is not set"))
  ELSE IF e.TTS_VENDOR = "microsoft"
  THEN IF \/ Unset(e, "MICROSOFT_TTS_KEY")
          \/ Unset(e, "MICROSOFT_TTS_REGION")
          \/ Unset(e, "MICROSOFT_TTS_VOICE_NAME")
          \/ Unset(e, "MICROSOFT_TTS_RATE")
          \/ Unset(e, "MICROSOFT_TTS_VOLUME")
       THEN ErrorReply(500, Msg("Microsoft TTS configuration is not set"))
       ELSE Next_
  ELSE IF e.TTS_VENDOR = "elevenlabs"
  THEN IF \/ Unset(e, "ELEVENLABS_API_KEY")
          \/ Unset(e, "ELEVENLABS_VOICE_ID")
          \/ Unset(e, "ELEVENLABS_MODEL_ID")
       THEN ErrorReply(500, Msg("ElevenLabs TTS configuration is not set"))
       ELSE Next_
  ELSE ErrorReply(500, MsgS("Unsupported TTS vendor: ", e.TTS_VENDOR))

\* req.is('application/json'): no match for a request that has no body,
\* otherwise a match on the media type, parameters ignored
ReqIsJson(r) == r.body # NoBody /\ r.ctype.type = "application/json"

validateContentType(r) ==
  IF r.method = "POST" /\ ~ReqIsJson(r)
  THEN ErrorReply(415,
         Msg("Unsupported Media Type. Content-Type must be application/json"))
  ELSE Next_

\* variant: the string is tested without trim()
RequesterIdStringOk_noTrim(s) == s # <<>>

\* the requester_id rule for a string, Express
RequesterIdStringOk(s) == ~TrimIsEmpty(s)

\* variant: Number.isInteger is not tested
RequesterIdNumberOk_noIntegerTest(v) == ~(v.k < 0)

\* the requester_id rule for a number, Express
RequesterIdNumberOk(v) == ~(~IsInteger(v) \/ v.k < 0)

\* variant: the upper limit is exclusive
ChannelLengthOk_exclusive(s) == ~(Len(s) < 3 \/ Len(s) >= 64)

\* the rule for channel_name.length, Express
ChannelLengthOk(s) == ~(Len(s) < 3 \/ Len(s) > 64)

validateInviteBody(b) ==
  LET requester_id == Field(b, "requester_id")
      channel_name == Field(b, "channel_name")
  IN
  IF Falsy(requester_id)
  THEN ErrorReply(400, Msg("requester_id is required"))
  ELSE IF Falsy(channel_name)
  THEN ErrorReply(400, Msg("channel_name is required"))
  ELSE IF TypeOf(requester_id) = "string" /\ ~RequesterIdStringOk(requester_id.s)
  THEN ErrorReply(400, Msg("requester_id cannot be empty"))
  ELSE IF TypeOf(requester_id) = "number" /\ ~RequesterIdNumberOk(requester_id)
  THEN ErrorReply(400,
         Msg("requester_id must be a positive integer when provided as a number"))
  ELSE IF TypeOf(requester_id) \notin {"string", "number"}
  THEN ErrorReply(400, Msg("requester_id must be a string or number"))
  ELSE IF TypeOf(channel_name) # "string"
  THEN ErrorReply(400, Msg("channel_name must be a string"))
  ELSE IF ~ChannelLengthOk(channel_name.s)
  THEN ErrorReply(400,
         Msg("channel_name length must be between 3 and 64 characters"))
  ELSE Next_

validateRemoveBody(b) ==
  LET agent_id == Field(b, "agent_id") IN
  IF Falsy(agent_id)
  THEN ErrorReply(400, Msg("agent_id is required"))
  ELSE IF TypeOf(agent_id) # "string"
  THEN ErrorReply(400, Msg("agent_id must be a string"))
  ELSE Next_

validateRequestBody(r) ==
  IF r.method # "POST" THEN Next_
  ELSE IF BodyIsEmpty(r.body)
  THEN ErrorReply(400, Msg("Request body is required"))
  ELSE IF ReqPath(r) = PathInvite THEN validateInviteBody(r.body)
  ELSE IF ReqPath(r) = PathRemove THEN validateRemoveBody(r.body)
  ELSE Next_

(***************************************************************************)
(* Fastify preHandler hooks: fastify/src/utils/validation.ts               *)
(***************************************************************************)
fastifyValidateEnvironment(e, url) ==
  IF Unset(e, "AGORA_APP_ID") \/ Unset(e, "AGORA_APP_CERTIFICATE")
  THEN ErrorReply(500, Msg("Agora credentials are not set"))
  ELSE IF ~StartsWith(url, PathAgent) THEN Next_
  ELSE IF \/ Unset(e, "AGORA_CONVO_AI_BASE_URL")
          \/ Unset(e, "AGORA_CUSTOMER_ID")
          \/ Unset(e, "AGORA_CUSTOMER_SECRET")
  THEN ErrorReply(500, Msg("Agora Conversation AI credentials are not set"))
  ELSE IF Unset(e, "LLM_URL") \/ Unset(e, "LLM_TOKEN")
  THEN ErrorReply(500, Msg("LLM configuration is not set"))
  ELSE IF Unset(e, "TTS_VENDOR")
  THEN ErrorReply(500, Msg("TTS_VENDOR is not set"))
  ELSE IF e.TTS_VENDOR = "microsoft"
  THEN IF \/ Unset(e, "MICROSOFT_TTS_KEY")
          \/ Unset(e, "MICROSOFT_TTS_REGION")
          \/ Unset(e, "MICROSOFT_TTS_VOICE_NAME")
          \/ Unset(e, "MICROSOFT_TTS_RATE")
          \/ Unset(e, "MICROSOFT_TTS_VOLUME")
       THEN ErrorReply(500, Msg("Microsoft TTS configuration is not set"))
       ELSE Next_
  ELSE IF e.TTS_VENDOR = "elevenlabs"
  THEN IF \/ Unset(e, "ELEVENLABS_API_KEY")
          \/ Unset(e, "ELEVENLABS_VOICE_ID")
          \/ Unset(e, "ELEVENLABS_MODEL_ID")
       THEN ErrorReply(500, Msg("ElevenLabs TTS configuration is not set"))
       ELSE Next_
  ELSE ErrorReply(500, MsgS("Unsupported TTS vendor: ", e.TTS_VENDOR))

\* request.headers['content-type'] !== 'application/json'
HeaderIsJson(r) == r.ctype = ContentType("application/json", "")

fastifyValidateContentType(r) ==
  IF r.method = "POST" /\ ~HeaderIsJson(r)
  THEN ErrorReply(415,
         Msg("Unsupported Media Type. Content-Type must be application/json"))
  ELSE Next_

\* the requester_id rule for a string, Fastify
FastifyRequesterIdStringOk(s) == IsAlnumHyphen(s)

\* the requester_id rule for a number, Fastify
FastifyRequesterIdNumberOk(v) == ~(~IsInteger(v) \/ v.k < 0)

\* the rule for channel_name.length, Fastify
FastifyChannelLengthOk(s) == ~(Len(s) < 3 \/ Len(s) > 64)

fastifyValidateInviteBody(b) ==
  LET requester_id == Field(b, "requester_id")
      channel_name == Field(b, "channel_name")
  IN
  IF Falsy(requester_id)
  THEN ErrorReply(400, Msg("requester_id is required"))
  ELSE IF Falsy(channel_name)
  THEN ErrorReply(400, Msg("channel_name is required"))
  ELSE IF /\ TypeOf(requester_id) = "string"
          /\ ~FastifyRequesterIdStringOk(requester_id.s)
  THEN ErrorReply(400,
         Msg("requester_id must contain only alphanumeric characters and hyphens"))
  ELSE IF /\ TypeOf(requester_id) = "number"
          /\ ~FastifyRequesterIdNumberOk(requester_id)
  THEN ErrorReply(400,
         Msg("requester_id must be a positive integer when provided as a number"))
  ELSE IF TypeOf(requester_id) \notin {"string", "number"}
  THEN ErrorReply(400, Msg("requester_id must be a string or number"))
  ELSE IF TypeOf(channel_name) # "string"
  THEN ErrorReply(400, Msg("channel_name must be a string"))
  ELSE IF ~FastifyChannelLengthOk(channel_name.s)
  THEN ErrorReply(400,
         Msg("channel_name length must be between 3 and 64 characters"))
  ELSE Next_

fastifyValidateRemoveBody(b) ==
  LET agent_id == Field(b, "agent_id") IN
  IF Falsy(agent_id)
  THEN ErrorReply(400, Msg("agent_id is required"))
  ELSE IF TypeOf(agent_id) # "string"
  THEN ErrorReply(400, Msg("agent_id must be a string"))
  ELSE Next_

fastifyValidateRequestBody(r) ==
  IF r.method # "POST" THEN Next_
  ELSE IF BodyIsEmpty(r.body)
  THEN ErrorReply(400, Msg("Request body is required"))
  ELSE IF ReqUrl(r) = PathInvite THEN fastifyValidateInviteBody(r.body)
  ELSE IF ReqUrl(r) = PathRemove THEN fastifyValidateRemoveBody(r.body)
  ELSE Next_

(***************************************************************************)
(* Calls to the provisioning service                                       *)
(***************************************************************************)
NoCall == [kind |-> "none"]

\* `${process.env.AGORA_CUSTOMER_ID}:${process.env.AGORA_CUSTOMER_SECRET}`
BasicAuth(e) == [id |-> e.AGORA_CUSTOMER_ID, secret |-> e.AGORA_CUSTOMER_SECRET]

\* fetch(`${process.env.AGORA_CONVO_AI_BASE_URL}/...`) rejects with a
\* TypeError, before anything is sent, when the URL has no scheme and host,
\* which is the case when the base URL is unset ("undefined/<app>/join")
FetchRejectsUrl(e) == Unset(e, "AGORA_CONVO_AI_BASE_URL")

JoinCall(e, properties) ==
  [ kind |-> "join", base |-> e.AGORA_CONVO_AI_BASE_URL,
    app |-> e.AGORA_APP_ID, auth |-> BasicAuth(e), properties |-> properties ]

\* agents/${agent_id}/leave: the template literal stringifies agent_id
LeaveCall(e, agent_id) ==
  [ kind |-> "leave", base |-> e.AGORA_CONVO_AI_BASE_URL,
    app |-> e.AGORA_APP_ID, auth |-> BasicAuth(e),
    agent |-> toString(agent_id) ]

NoToken == [role |-> "none"]

\* what a handler has done when it returns or suspends at await fetch(...)
Replied(reply) == [reply |-> reply, call |-> NoCall, signed |-> NoToken]
Awaiting(c)    == [reply |-> NoReply, call |-> c, signed |-> NoToken]
\* the same, after the handler had a credential signed
Signing(token, out) == [out EXCEPT !.signed = token]

\* the credential-signing primitive RtcTokenBuilder.buildTokenWithUid, with
\* RtcRole.PUBLISHER for the role
buildTokenWithUid(appId, appCertificate, channel, uid, expire, privExpire) ==
  [ appId |-> appId, appCertificate |-> appCertificate,
    channel |-> channel, uid |-> uid, role |-> "PUBLISHER",
    tokenExpire |-> expire, privilegeExpire |-> privExpire ]

\* variant: the seconds are rounded to the nearest
ExpirationTime_rounded(timestamp) == ((timestamp + 500) \div 1000) + 3600

\* Math.floor(timestamp / 1000) + 3600
ExpirationTime(timestamp) == (timestamp \div 1000) + 3600

\* parseFloat of the configured rate and volume, in tenths
parseFloat(str) ==
  CASE str = "1.1"   -> 11
    [] str = "70"    -> 700
    [] str = "1.0"   -> 10
    [] str = "100.0" -> 1000

\* str.split(',') of the configured modality lists
split(str) ==
  CASE str = "text,audio" -> <<"text", "audio">>
    [] str = "audio"      -> <<"audio">>

\* an upstream response body: whether it is a JSON text, and what it says
UpstreamBody(json, content) == [json |-> json, content |-> content]

\* response.ok
ResponseOk(status) == status >= 200 /\ status <= 299
\* await response.text(): the body as sent
Text(body) == body
\* await response.json(): the parsed body; throws SyntaxError on other text
JsonThrows(body) == ~body.json
Json(body) == body.content

Thrown(m) == [ok |-> FALSE, error |-> m]
Returned(v) == [ok |-> TRUE, value |-> v]

(***************************************************************************)
(* Express handlers: express/src/routes/agent.ts                           *)
(***************************************************************************)
\* variant: the voice name is not tested
getTTSConfig_noVoiceTest(e, vendor) ==
  IF vendor = "microsoft"
  THEN IF \/ Unset(e, "MICROSOFT_TTS_KEY")
          \/ Unset(e, "MICROSOFT_TTS_REGION")
          \/ Unset(e, "MICROSOFT_TTS_RATE")
          \/ Unset(e, "MICROSOFT_TTS_VOLUME")
       THEN Thrown(Msg("Missing Microsoft TTS environment variables"))
       ELSE Returned(
              [ vendor |-> "microsoft",
                params |-> [ key        |-> e.MICROSOFT_TTS_KEY,
                             region     |-> e.MICROSOFT_TTS_REGION,
                             voice_name |-> e.MICROSOFT_TTS_VOICE_NAME,
                             rate       |-> parseFloat(e.MICROSOFT_TTS_RATE),
                             volume     |-> parseFloat(e.MICROSOFT_TTS_VOLUME) ] ])
  ELSE IF vendor = "elevenlabs"
  THEN IF \/ Unset(e, "ELEVENLABS_API_KEY")
          \/ Unset(e, "ELEVENLABS_VOICE_ID")
          \/ Unset(e, "ELEVENLABS_MODEL_ID")
       THEN Thrown(Msg("Missing ElevenLabs environment variables"))
       ELSE Returned(
              [ vendor |-> "elevenlabs",
                params |-> [ api_key  |-> e.ELEVENLABS_API_KEY,
                             model_id |-> e.ELEVENLABS_MODEL_ID,
                             voice_id |-> e.ELEVENLABS_VOICE_ID ] ])
  ELSE Thrown(MsgS("Unsupported TTS vendor: ", vendor))

getTTSConfig(e, vendor) ==
  IF vendor = "microsoft"
  THEN IF \/ Unset(e, "MICROSOFT_TTS_KEY")
          \/ Unset(e, "MICROSOFT_TTS_REGION")
          \/ Unset(e, "MICROSOFT_TTS_VOICE_NAME")
          \/ Unset(e, "MICROSOFT_TTS_RATE")
          \/ Unset(e, "MICROSOFT_TTS_VOLUME")
       THEN Thrown(Msg("Missing Microsoft TTS environment variables"))
       ELSE Returned(
              [ vendor |-> "microsoft",
                params |-> [ key        |-> e.MICROSOFT_TTS_KEY,
                             region     |-> e.MICROSOFT_TTS_REGION,
                             voice_name |-> e.MICROSOFT_TTS_VOICE_NAME,
                             rate       |-> parseFloat(e.MICROSOFT_TTS_RATE),
                             volume     |-> parseFloat(e.MICROSOFT_TTS_VOLUME) ] ])
  ELSE IF vendor = "elevenlabs"
  THEN IF \/ Unset(e, "ELEVENLABS_API_KEY")
          \/ Unset(e, "ELEVENLABS_VOICE_ID")
          \/ Unset(e, "ELEVENLABS_MODEL_ID")
       THEN Thrown(Msg("Missing ElevenLabs environment variables"))
       ELSE Returned(
              [ vendor |-> "elevenlabs",
                params |-> [ api_key  |-> e.ELEVENLABS_API_KEY,
                             model_id |-> e.ELEVENLABS_MODEL_ID,
                             voice_id |-> e.ELEVENLABS_VOICE_ID ] ])
  ELSE Thrown(MsgS("Unsupported TTS vendor: ", vendor))

\* variant: the agent's own identity is listed too
RemoteRtcUids_withAgent(requesterUid) == <<requesterUid, "Agent">>

\* remote_rtc_uids: [requesterUid]
RemoteRtcUids(requesterUid) == <<requesterUid>>

\* variant: the test is /\D/, any character that is not a digit
EnableStringUid_nonDigit(requesterUid) ==
  \E i \in DOMAIN requesterUid : ~IsDigit(requesterUid[i])

\* /[a-zA-Z]/.test(requesterUid)
EnableStringUid(requesterUid) == HasLetter(requesterUid)

\* variant: the configured INPUT_MODALITIES is not consulted
InputModalities_noEnv(e, input_modalities) ==
  IF ~Falsy(input_modalities) THEN input_modalities
  ELSE Arr(<<"text">>)

\* input_modalities || process.env.INPUT_MODALITIES?.split(',') || ['text']
InputModalities(e, input_modalities) ==
  IF ~Falsy(input_modalities) THEN input_modalities
  ELSE IF ~Unset(e, "INPUT_MODALITIES") THEN Arr(split(e.INPUT_MODALITIES))
  ELSE Arr(<<"text">>)

\* output_modalities || process.env.OUTPUT_MODALITIES?.split(',') ||
\* ['text', 'audio']
OutputModalities(e, output_modalities) ==
  IF ~Falsy(output_modalities) THEN output_modalities
  ELSE IF ~Unset(e, "OUTPUT_MODALITIES") THEN Arr(split(e.OUTPUT_MODALITIES))
  ELSE Arr(<<"text", "audio">>)

\* router.post('/invite') up to await fetch(...); every throw lands in the
\* catch block, which answers 500 with the error's message
inviteHandler(e, b, timestamp) ==
  LET requester_id == Field(b, "requester_id")
      channel_name == Field(b, "channel_name")
      agentUid == IF Unset(e, "AGENT_UID") THEN "Agent" ELSE e.AGENT_UID
      expirationTime == ExpirationTime(timestamp)
      token == buildTokenWithUid(e.AGORA_APP_ID, e.AGORA_APP_CERTIFICATE,
                                 channel_name, agentUid,
                                 expirationTime, expirationTime)
      tts == getTTSConfig(e, e.TTS_VENDOR)
      requesterUid == toString(requester_id)
      properties ==
        [ channel |-> channel_name,
          token |-> token,
          agent_rtc_uid |-> agentUid,
          remote_rtc_uids |-> RemoteRtcUids(requesterUid),
          enable_string_uid |-> EnableStringUid(requesterUid),
          llm |-> [ url |-> e.LLM_URL,
                    api_key |-> e.LLM_TOKEN,
                    model |-> e.LLM_MODEL,
                    input_modalities |->
                      InputModalities(e, Field(b, "input_modalities")),
                    output_modalities |->
                      OutputModalities(e, Field(b, "output_modalities")) ],
          tts |-> tts.value ]
  IN
  Signing(token,
    IF Unset(e, "TTS_VENDOR")
    THEN Replied(ErrorReply(500, Msg("TTS_VENDOR is not set")))
    ELSE IF ~tts.ok THEN Replied(ErrorReply(500, tts.error))
    ELSE IF ToStringThrows(requester_id)
    THEN Replied(ErrorReply(500,
           MsgS("Cannot read properties of (reading 'toString')",
                requester_id.t)))
    ELSE IF FetchRejectsUrl(e)
    THEN Replied(ErrorReply(500, Msg("Failed to parse URL")))
    ELSE Awaiting(JoinCall(e, properties)))

\* variant: only the agent id is passed on
inviteResponse_agentIdOnly(status, body) ==
  IF ~ResponseOk(status)
  THEN ErrorReply(500, MsgN("Failed to start conversation: ", status))
  ELSE IF JsonThrows(body)
  THEN ErrorReply(500, Msg("Unexpected token in JSON"))
  ELSE Reply(200, [agent_id |-> Json(body).agent_id])

\* router.post('/invite') after await fetch(...) resolved
inviteResponse(status, body) ==
  IF ~ResponseOk(status)
  THEN ErrorReply(500, MsgN("Failed to start conversation: ", status))
  ELSE IF JsonThrows(body)
  THEN ErrorReply(500, Msg("Unexpected token in JSON"))
  ELSE Reply(200, Json(body))

\* router.post('/invite') after await fetch(...) rejected with an Error
inviteFailure(cause) == ErrorReply(500, Msg(cause))

\* router.post('/remove') up to await fetch(...)
removeHandler(e, b) ==
  LET agent_id == Field(b, "agent_id") IN
  IF Falsy(agent_id)
  THEN Replied(ErrorReply(500, Msg("agent_id is required")))
  ELSE IF FetchRejectsUrl(e)
  THEN Replied(ErrorReply(500, Msg("Failed to parse URL")))
  ELSE Awaiting(LeaveCall(e, agent_id))

\* router.post('/remove') after await fetch(...) resolved
removeResponse(status, body) ==
  IF ~ResponseOk(status)
  THEN ErrorReply(500, MsgN("Failed to remove agent: ", status))
  ELSE Reply(200, [success |-> TRUE])

\* variant: the catch block sends nothing
removeFailure_silent(cause) == NoReply

\* router.post('/remove') after await fetch(...) rejected with an Error
removeFailure(cause) == ErrorReply(500, Msg(cause))

\* variant: the probe answers 204 without a body
pingHandler_noContent == Reply(204, [none |-> TRUE])

\* router.get('/ping')
pingHandler == Reply(200, [message |-> "pong"])

(***************************************************************************)
(* Express token route: express/src/routes/token.ts.  A value of Math.random *)
(* is kept as the digits of its base-36 fraction, <<>> for the value 0.    *)
(***************************************************************************)
\* Math.random().toString(36)
ToString36(x) == IF x = <<>> THEN <<"0">> ELSE <<"0", ".">> \o x

ChannelPrefix ==
  <<"a","i","-","c","o","n","v","e","r","s","a","t","i","o","n","-">>

\* `ai-conversation-${timestamp}-${random}`
generateChannelName(timestamp, x) ==
  ChannelPrefix \o DecStr(timestamp) \o <<"-">>
    \o Substring(ToString36(x), 2, 8)

\* the route's own validateEnvironment
tokenValidateEnvironment(e) ==
  IF Unset(e, "AGORA_APP_ID") \/ Unset(e, "AGORA_APP_CERTIFICATE")
  THEN ErrorReply(500, Msg("Agora credentials are not set"))
  ELSE Next_

\* variant: a channel has three characters at least
TokenChannelLengthOk_min3(s) == ~(Len(s) < 3 \/ Len(s) > 64)

\* channel.length < 1 || channel.length > 64
TokenChannelLengthOk(s) == ~(Len(s) < 1 \/ Len(s) > 64)

\* validateRequest, on req.query
validateRequest(uidStr, channel) ==
  IF ~Falsy(uidStr) /\ ~IsDigits(uidStr.s)
  THEN ErrorReply(400, Msg("Invalid uid parameter. Must be a number"))
  ELSE IF Falsy(channel) THEN Next_
  ELSE IF TypeOf(channel) # "string"
  THEN ErrorReply(400, Msg("Invalid channel parameter. Must be a string"))
  ELSE IF ~TokenChannelLengthOk(channel.s)
  THEN ErrorReply(400,
         Msg("Invalid channel parameter. Length must be between 1 and 64 characters"))
  ELSE IF ~IsAlnumHyphen(channel.s)
  THEN ErrorReply(400,
         Msg("Invalid channel parameter. Only alphanumeric characters and hyphens are allowed"))
  ELSE Next_

\* the handler of router.get('/'); the signing primitive is taken not to
\* throw
tokenHandler(e, uidStr, channel, timestamp, x) ==
  LET uid == parseInt(IF Falsy(uidStr) THEN <<"0">> ELSE uidStr.s)
      channelName == IF Falsy(channel) THEN generateChannelName(timestamp, x)
                     ELSE channel.s
      expirationTime == ExpirationTime(timestamp)
      token == buildTokenWithUid(e.AGORA_APP_ID, e.AGORA_APP_CERTIFICATE,
                                 Str(channelName), uid,
                                 expirationTime, expirationTime)
  IN
  Signing(token,
    Replied(Reply(200, [ token |-> token, uid |-> toString(uid),
                         channel |-> channelName ])))

\* what a route did: the route-level checks that ran, whether its handler
\* ran, and the outcome
Routed(ran, handled, out) == [checks |-> ran, handled |-> handled, out |-> out]

\* router.get('/', validateEnvironment, validateRequest, handler)
tokenRoute(e, r, timestamp, x) ==
  LET r1 == tokenValidateEnvironment(e)
      r2 == validateRequest(r.uid, r.channel)
  IN
  IF r1 # Next_
  THEN Routed(<<"token.validateEnvironment">>, FALSE, Replied(r1))
  ELSE IF r2 # Next_
  THEN Routed(<<"token.validateEnvironment", "token.validateRequest">>,
              FALSE, Replied(r2))
  ELSE Routed(<<"token.validateEnvironment", "token.validateRequest">>,
              TRUE, tokenHandler(e, r.uid, r.channel, timestamp, x))

(***************************************************************************)
(* Fastify token route: fastify/src/routes/token.ts                        *)
(***************************************************************************)
\* the pattern '^d+$': one or more letters d
MatchesUidPattern(s) == Len(s) >= 1 /\ \A i \in DOMAIN s : s[i] = "d"

\* the pattern '^[a-zA-Z0-9-]{1,64}$'
MatchesChannelPattern(s) == IsAlnumHyphen(s) /\ Len(s) <= 64

\* the answer of the framework to a query string that fails the schema
SchemaError(m) ==
  Reply(400, [ statusCode |-> 400, code |-> "FST_ERR_VALIDATION",
               error |-> "Bad Request", message |-> m ])

\* the route's schema.querystring, applied before the preHandler hooks
fastifyTokenSchema(uid, channel) ==
  IF uid # Undefined /\ TypeOf(uid) # "string"
  THEN SchemaError(Msg("querystring/uid must be string"))
  ELSE IF uid # Undefined /\ ~MatchesUidPattern(uid.s)
  THEN SchemaError(Msg("querystring/uid must match pattern \"^d+$\""))
  ELSE IF channel # Undefined /\ TypeOf(channel) # "string"
  THEN SchemaError(Msg("querystring/channel must be string"))
  ELSE IF channel # Undefined /\ ~MatchesChannelPattern(channel.s)
  THEN SchemaError(
         Msg("querystring/channel must match pattern \"^[a-zA-Z0-9-]{1,64}$\""))
  ELSE Next_

\* the handler of fastify.get('/')
fastifyTokenHandler(e, uidStr, channel, timestamp, x) ==
  LET uid == parseInt(IF Falsy(uidStr) THEN <<"0">> ELSE uidStr.s)
      channelName == IF Falsy(channel) THEN generateChannelName(timestamp, x)
                     ELSE channel.s
      expirationTime == ExpirationTime(timestamp)
      token == buildTokenWithUid(e.AGORA_APP_ID, e.AGORA_APP_CERTIFICATE,
                                 Str(channelName), uid,
                                 expirationTime, expirationTime)
  IN
  Signing(token,
    Replied(Reply(200, [ token |-> token, uid |-> toString(uid),
                         channel |-> channelName ])))

\* fastify.get('/', { schema, handler })
fastifyTokenRoute(e, r, timestamp, x) ==
  LET r1 == fastifyTokenSchema(r.uid, r.channel) IN
  IF r1 # Next_
  THEN Routed(<<"querystring schema">>, FALSE, Replied(r1))
  ELSE Routed(<<"querystring schema">>, TRUE,
              fastifyTokenHandler(e, r.uid, r.channel, timestamp, x))

(***************************************************************************)
(* Fastify handlers: the agentRoutes plugin (docs/FASTIFY_GUIDE.md)        *)
(***************************************************************************)
\* variant: the ElevenLabs parameters carry the Microsoft region too
fastifyGetTTSConfig_withRegion(e, vendor) ==
  IF vendor = "microsoft"
  THEN Returned(
         [ vendor |-> "microsoft",
           params |-> [ key        |-> e.MICROSOFT_TTS_KEY,
                        region     |-> e.MICROSOFT_TTS_REGION,
                        voice_name |-> e.MICROSOFT_TTS_VOICE_NAME,
                        rate       |-> parseFloat("1.0"),
                        volume     |-> parseFloat("100.0") ] ])
  ELSE Returned(
         [ vendor |-> "elevenlabs",
           params |-> [ key      |-> e.ELEVENLABS_API_KEY,
                        region   |-> e.MICROSOFT_TTS_REGION,
                        voice_id |-> e.ELEVENLABS_VOICE_ID,
                        model_id |-> e.ELEVENLABS_MODEL_ID ] ])

fastifyGetTTSConfig(e, vendor) ==
  IF vendor = "microsoft"
  THEN IF \/ Unset(e, "MICROSOFT_TTS_KEY")
          \/ Unset(e, "MICROSOFT_TTS_REGION")
          \/ Unset(e, "MICROSOFT_TTS_VOICE_NAME")
       THEN Thrown(Msg("Microsoft TTS configuration missing"))
       ELSE Returned(
              [ vendor |-> "microsoft",
                params |->
                  [ key        |-> e.MICROSOFT_TTS_KEY,
                    region     |-> e.MICROSOFT_TTS_REGION,
                    voice_name |-> e.MICROSOFT_TTS_VOICE_NAME,
                    rate       |-> parseFloat(IF Unset(e, "MICROSOFT_TTS_RATE")
                                              THEN "1.0"
                                              ELSE e.MICROSOFT_TTS_RATE),
                    volume     |-> parseFloat(IF Unset(e, "MICROSOFT_TTS_VOLUME")
                                              THEN "100.0"
                                              ELSE e.MICROSOFT_TTS_VOLUME) ] ])
  ELSE IF vendor = "elevenlabs"
  THEN IF \/ Unset(e, "ELEVENLABS_API_KEY")
          \/ Unset(e, "ELEVENLABS_VOICE_ID")
          \/ Unset(e, "ELEVENLABS_MODEL_ID")
       THEN Thrown(Msg("ElevenLabs TTS configuration missing"))
       ELSE Returned(
              [ vendor |-> "elevenlabs",
                params |-> [ key      |-> e.ELEVENLABS_API_KEY,
                             voice_id |-> e.ELEVENLABS_VOICE_ID,
                             model_id |-> e.ELEVENLABS_MODEL_ID ] ])
  ELSE Thrown(MsgS("Unsupported TTS vendor: ", vendor))

\* a destructuring default applies to a missing (undefined) field only
Default(v, d) == IF v = Undefined THEN d ELSE v

\* fastify.post('/invite') up to await fetch(...)
fastifyInviteHandler(e, b, timestamp) ==
  LET requester_id == Field(b, "requester_id")
      channel_name == Field(b, "channel_name")
      input_modalities ==
        Default(Field(b, "input_modalities"), Arr(<<"text">>))
      output_modalities ==
        Default(Field(b, "output_modalities"), Arr(<<"text", "audio">>))
      agentUid == IF Unset(e, "AGENT_UID") THEN "Agent" ELSE e.AGENT_UID
      expirationTime == ExpirationTime(timestamp)
      token == buildTokenWithUid(e.AGORA_APP_ID, e.AGORA_APP_CERTIFICATE,
                                 channel_name, agentUid,
                                 expirationTime, expirationTime)
      ttsVendor == IF Unset(e, "TTS_VENDOR") THEN "microsoft" ELSE e.TTS_VENDOR
      tts == fastifyGetTTSConfig(e, ttsVendor)
      requesterUid == toString(requester_id)
      properties ==
        [ channel |-> channel_name,
          token |-> token,
          agent_rtc_uid |-> agentUid,
          remote_rtc_uids |-> RemoteRtcUids(requesterUid),
          enable_string_uid |-> EnableStringUid(requesterUid),
          llm |-> [ url |-> e.LLM_URL,
                    api_key |-> e.LLM_TOKEN,
                    model |-> IF Unset(e, "LLM_MODEL") THEN "gpt-3.5-turbo"
                              ELSE e.LLM_MODEL,
                    input_modalities |-> input_modalities,
                    output_modalities |-> output_modalities ],
          tts |-> tts.value ]
  IN
  IF b = NoBody
  THEN Replied(ErrorReply(500, Msg("Cannot destructure property of request.body")))
  ELSE IF Unset(e, "AGORA_APP_ID") \/ Unset(e, "AGORA_APP_CERTIFICATE")
  THEN Replied(ErrorReply(500, Msg("Agora credentials not configured")))
  ELSE IF \/ Unset(e, "AGORA_CONVO_AI_BASE_URL")
          \/ Unset(e, "AGORA_CUSTOMER_ID")
          \/ Unset(e, "AGORA_CUSTOMER_SECRET")
  THEN Replied(ErrorReply(500,
         Msg("Agora Conversational AI credentials not configured")))
  ELSE Signing(token,
    IF ~tts.ok THEN Replied(ErrorReply(500, tts.error))
    ELSE IF ToStringThrows(requester_id)
    THEN Replied(ErrorReply(500,
           MsgS("Cannot read properties of (reading 'toString')",
                requester_id.t)))
    ELSE Awaiting(JoinCall(e, properties)))

\* fastify.post('/invite') after await fetch(...) resolved
fastifyInviteResponse(status, body) ==
  IF ~ResponseOk(status)
  THEN Reply(status,
         [ error |-> MsgN("Failed to start conversation: ", status),
           details |-> Text(body) ])
  ELSE IF JsonThrows(body)
  THEN ErrorReply(500, Msg("Unexpected token in JSON"))
  ELSE Reply(200, Json(body))

\* fastify.post('/invite') after await fetch(...) rejected with an Error
fastifyInviteFailure(cause) == ErrorReply(500, Msg(cause))

\* fastify.post('/remove') up to await fetch(...)
fastifyRemoveHandler(e, b) ==
  LET agent_id == Field(b, "agent_id") IN
  IF b = NoBody
  THEN Replied(ErrorReply(500, Msg("Cannot destructure property of request.body")))
  ELSE IF Falsy(agent_id)
  THEN Replied(ErrorReply(400, Msg("agent_id is required")))
  ELSE IF \/ Unset(e, "AGORA_CONVO_AI_BASE_URL")
          \/ Unset(e, "AGORA_APP_ID")
          \/ Unset(e, "AGORA_CUSTOMER_ID")
          \/ Unset(e, "AGORA_CUSTOMER_SECRET")
  THEN Replied(ErrorReply(500, Msg("Agora credentials not configured")))
  ELSE Awaiting(LeaveCall(e, agent_id))

\* fastify.post('/remove') after await fetch(...) resolved
fastifyRemoveResponse(status, body) ==
  IF ~ResponseOk(status)
  THEN Reply(status,
         [ error |-> MsgN("Failed to remove agent: ", status),
           details |-> Text(body) ])
  ELSE Reply(200, [success |-> TRUE])

\* fastify.post('/remove') after await fetch(...) rejected with an Error
fastifyRemoveFailure(cause) == ErrorReply(500, Msg(cause))

\* fastify.get('/ping')
fastifyPingHandler == Reply(200, [message |-> "pong"])

(***************************************************************************)
(* Routing                                                                 *)
(***************************************************************************)
\* express.Router() is created without options: matching ignores case and
\* one trailing slash
RouterPath(path) ==
  LET p == ToLowerCase(path) IN
  IF Len(p) > 1 /\ p[Len(p)] = "/" THEN SubSeq(p, 1, Len(p) - 1) ELSE p

\* index.ts: router.use('/token', tokenRouter), router.use('/agent',
\* agentRouter), router.get('/ping'); token.ts: router.get('/');
\* agent.ts: router.post('/invite'), router.post('/remove')
expressRoute(r) ==
  LET p == RouterPath(ReqPath(r)) IN
  CASE r.method = "GET"  /\ p = PathToken  -> "token"
    [] r.method = "POST" /\ p = PathInvite -> "invite"
    [] r.method = "POST" /\ p = PathRemove -> "remove"
    [] r.method = "GET"  /\ p = PathPing   -> "ping"
    [] OTHER                               -> "none"

\* index.ts: fastify.register(tokenRoutes, { prefix: '/token' }),
\* fastify.register(agentRoutes, { prefix: '/agent' }), fastify.get('/ping');
\* the router matches the path exactly and leaves the query string out; the
\* route '/' of a prefixed plugin is registered with and without the slash
fastifyRoute(r) ==
  CASE r.method = "GET" /\ r.path \in {PathToken, PathToken \o <<"/">>}
                                                -> "token"
    [] r.method = "POST" /\ r.path = PathInvite -> "invite"
    [] r.method = "POST" /\ r.path = PathRemove -> "remove"
    [] r.method = "GET"  /\ r.path = PathPing   -> "ping"
    [] OTHER                                    -> "none"

(***************************************************************************)
(* The middleware chain of each server, in registration order.  The result *)
(* names the checks that ran and, when one of them answered, its reply.    *)
(***************************************************************************)
Chain(ran, reply) == [checks |-> ran, reply |-> reply]

\* router.use(validateEnvironment); router.use(validateContentType);
\* router.use(validateRequestBody)
expressMiddleware(e, r) ==
  LET r1 == validateEnvironment(e, ReqPath(r))
      r2 == validateContentType(r)
      r3 == validateRequestBody(r)
  IN
  IF r1 # Next_ THEN Chain(<<"validateEnvironment">>, r1)
  ELSE IF r2 # Next_
  THEN Chain(<<"validateEnvironment", "validateContentType">>, r2)
  ELSE Chain(<<"validateEnvironment", "validateContentType",
               "validateRequestBody">>, r3)

\* fastify.addHook('preHandler', ...) three times
fastifyMiddleware(e, r) ==
  LET r1 == fastifyValidateEnvironment(e, ReqUrl(r))
      r2 == fastifyValidateContentType(r)
      r3 == fastifyValidateRequestBody(r)
  IN
  IF r1 # Next_ THEN Chain(<<"validateEnvironment">>, r1)
  ELSE IF r2 # Next_
  THEN Chain(<<"validateEnvironment", "validateContentType">>, r2)
  ELSE Chain(<<"validateEnvironment", "validateContentType",
               "validateRequestBody">>, r3)

Middleware(s, e, r) ==
  IF s = "express" THEN expressMiddleware(e, r) ELSE fastifyMiddleware(e, r)

Route(s, r) == IF s = "express" THEN expressRoute(r) ELSE fastifyRoute(r)

InviteHandler(s, e, b, timestamp) ==
  IF s = "express" THEN inviteHandler(e, b, timestamp)
  ELSE fastifyInviteHandler(e, b, timestamp)

RemoveHandler(s, e, b) ==
  IF s = "express" THEN removeHandler(e, b) ELSE fastifyRemoveHandler(e, b)

PingHandler(s) == IF s = "express" THEN pingHandler ELSE fastifyPingHandler

TokenRoute(s, e, r, timestamp, x) ==
  IF s = "express" THEN tokenRoute(e, r, timestamp, x)
  ELSE fastifyTokenRoute(e, r, timestamp, x)

\* Fastify validates the query string against the route's schema before the
\* preHandler hooks run
SchemaRejects(s, r) ==
  /\ s = "fastify"
  /\ fastifyRoute(r) = "token"
  /\ fastifyTokenSchema(r.uid, r.channel) # Next_

\* the handler's continuation when the provisioning service answered
UpstreamResponse(s, kind, status, body) ==
  CASE s = "express" /\ kind = "join"  -> inviteResponse(status, body)
    [] s = "express" /\ kind = "leave" -> removeResponse(status, body)
    [] s = "fastify" /\ kind = "join"  -> fastifyInviteResponse(status, body)
    [] s = "fastify" /\ kind = "leave" -> fastifyRemoveResponse(status, body)

\* the handler's continuation when fetch rejected
UpstreamFailure(s, kind, cause) ==
  CASE s = "express" /\ kind = "join"  -> inviteFailure(cause)
    [] s = "express" /\ kind = "leave" -> removeFailure(cause)
    [] s = "fastify" /\ kind = "join"  -> fastifyInviteFailure(cause)
    [] s = "fastify" /\ kind = "leave" -> fastifyRemoveFailure(cause)

(***************************************************************************)
(* Inputs                                                                  *)
(***************************************************************************)
Servers == {"express", "fastify"}

JsonCT        == ContentType("application/json", "")
JsonCharsetCT == ContentType("application/json", "charset=utf-8")
TextCT        == ContentType("text/plain", "")

Id1234  == <<"1","2","3","4">>
IdUser  == <<"u","s","e","r","-","1">>
IdE     == <<"1","E","5">>
IdHyph  == <<"1","2","-","3","4">>
IdUnder == <<"a","_","b">>
IdPad   == <<" ","7">>
IdBlank == <<" ">>
IdTabs  == <<"\t"," ">>
Agent1  == <<"a","g","e","n","t","-","1">>

RequesterIds ==
  { Undefined, Null, Obj, Bool(TRUE),
    Str(<<>>), Str(IdBlank), Str(IdTabs), Str(IdPad), Str(Id1234),
    Str(IdUser), Str(IdE), Str(IdHyph), Str(IdUnder),
    IntNum(0), IntNum(1), IntNum(1234), IntNum(-1), Num(3), Num(-3) }

\* the lengths of the channel names tried
ChannelLengths == {0, 1, 2, 3, 4, 63, 64, 65, 66}

ChannelNames ==
  { Undefined, Null, Obj, Bool(TRUE), IntNum(0), IntNum(12) }
    \cup {Str(Rep("c", n)) : n \in ChannelLengths}

AgentIds ==
  { Undefined, Null, Obj, Bool(TRUE), Bool(FALSE), IntNum(0), IntNum(123),
    Str(<<>>), Str(Agent1) }

GoodRid  == Str(Id1234)
GoodChan == Str(Rep("c", 9))
BadChan  == Str(Rep("c", 2))

InviteBody(rid, chan) ==
  Body(rid, chan, Undefined, Undefined, Undefined, FALSE)
RemoveBody(aid) ==
  Body(Undefined, Undefined, aid, Undefined, Undefined, FALSE)
EmptyObject ==
  Body(Undefined, Undefined, Undefined, Undefined, Undefined, FALSE)
OtherObject ==
  Body(Undefined, Undefined, Undefined, Undefined, Undefined, TRUE)

\* uid and channel are req.query.uid and req.query.channel, the parameters
\* the framework parsed out of the query string
Request(method, path, query, ctype, body) ==
  [method |-> method, path |-> path, query |-> query, ctype |-> ctype,
   body |-> body, uid |-> Undefined, channel |-> Undefined]

\* name=value, once for each value of the parameter (an array stands for a
\* parameter given several times; the name and each value of an array are
\* kept whole)
Param(name, v) ==
  CASE v = Undefined  -> <<>>
    [] v.t = "string" -> <<name, "=">> \o v.s
    [] v.t = "array"  -> <<name, "=", v.a[1], "&", name, "=", v.a[2]>>

\* the query string that is parsed into the two parameters
QueryString(uid, channel) ==
  IF uid = Undefined /\ channel = Undefined THEN <<>>
  ELSE <<"?">> \o Param("uid", uid)
         \o (IF uid # Undefined /\ channel # Undefined THEN <<"&">> ELSE <<>>)
         \o Param("channel", channel)

TokenRequest(path, uid, channel) ==
  [ Request("GET", path, QueryString(uid, channel), NoContentType, NoBody)
      EXCEPT !.uid = uid, !.channel = channel ]

NoRequest == Request("", <<>>, <<>>, NoContentType, NoBody)

Query == <<"?","x","=","1">>

\* spellings of the invite and remove URLs other than the literal ones
InviteUrls ==
  { <<PathInvite \o <<"/">>, <<>>>>,
    <<<<"/","A","g","e","n","t","/","i","n","v","i","t","e">>, <<>>>>,
    <<<<"/","a","g","e","n","t","/","I","n","v","i","t","e">>, <<>>>>,
    <<PathInvite, Query>> }
RemoveUrls ==
  { <<PathRemove \o <<"/">>, <<>>>>,
    <<<<"/","A","G","E","N","T","/","r","e","m","o","v","e">>, <<>>>>,
    <<<<"/","a","g","e","n","t","/","R","E","M","O","V","E">>, <<>>>>,
    <<PathRemove, Query>> }
PingUrls ==
  { <<PathPing, <<>>>>, <<PathPing \o <<"/">>, <<>>>>,
    <<<<"/","P","I","N","G">>, <<>>>>, <<PathPing, Query>> }

Modalities == {Undefined, Null, Arr(<<"audio">>), Arr(<<"text", "audio">>)}

\* invite requests to the literal URL, every requester_id with every
\* channel_name
InviteRequests ==
  { Request("POST", PathInvite, <<>>, JsonCT, InviteBody(rid, chan)) :
      rid \in RequesterIds, chan \in ChannelNames }

\* invite requests that state their modalities
ModalityRequests ==
  { Request("POST", PathInvite, <<>>, JsonCT,
            Body(GoodRid, GoodChan, Undefined, inm, outm, FALSE)) :
      inm \in Modalities, outm \in Modalities }

\* remove requests to the literal URL
RemoveRequests ==
  { Request("POST", PathRemove, <<>>, JsonCT, b) :
      b \in {RemoveBody(aid) : aid \in AgentIds} \cup {EmptyObject, OtherObject} }

\* requests to the other spellings of the two URLs
VariantRequests ==
  { Request("POST", u[1], u[2], JsonCT, InviteBody(rid, chan)) :
      u \in InviteUrls,
      rid \in {GoodRid, Str(IdUser), Str(IdPad), Str(<<>>), IntNum(0),
               IntNum(-1), Null, Undefined},
      chan \in {GoodChan, BadChan} }
  \cup
  { Request("POST", u[1], u[2], JsonCT, b) :
      u \in RemoveUrls,
      b \in {RemoveBody(aid) : aid \in AgentIds} \cup {OtherObject} }

\* requests that vary the Content-Type header and the presence of a body
ContentTypeRequests ==
  { Request("POST", p, <<>>, ct, b) :
      p \in {PathInvite, PathRemove},
      ct \in {NoContentType, JsonCT, JsonCharsetCT, TextCT},
      b \in {NoBody, EmptyObject, InviteBody(GoodRid, GoodChan),
             RemoveBody(Str(Agent1))} }

\* requests without a body
GetRequests ==
  { Request("GET", u[1], u[2], NoContentType, NoBody) :
      u \in PingUrls \cup {<<PathInvite, <<>>>>, <<PathRemove, <<>>>>} }

\* the uid and channel parameters tried on the token route
TokenUids ==
  { Undefined, Str(<<>>), Str(<<"0">>), Str(Id1234), Str(<<"d">>),
    Str(<<"d","d">>), Str(<<"1","2","a">>), Str(<<"-","1">>),
    Str(<<"1",".","5">>) }
TokenChannels ==
  { Undefined, Str(<<>>), Str(IdUser), Str(IdUnder), Arr(<<"abc", "def">>) }
    \cup {Str(Rep("c", n)) : n \in {1, 2, 3, 64, 65}}

\* token requests, every uid with every channel
TokenRequests ==
  { TokenRequest(PathToken, uid, channel) :
      uid \in TokenUids, channel \in TokenChannels }

\* the token requests tried under every configuration
CoreTokenRequests ==
  { TokenRequest(PathToken, Undefined, Undefined),
    TokenRequest(PathToken \o <<"/">>, Str(Id1234), Str(Rep("c", 3))),
    TokenRequest(<<"/","T","o","k","e","n">>, Undefined, Str(IdUser)),
    TokenRequest(PathToken, Str(<<"d">>), Str(IdUnder)) }

\* the requests tried under every configuration
CoreRequests ==
  ContentTypeRequests \cup ModalityRequests \cup GetRequests
    \cup CoreTokenRequests
    \cup { Request("POST", u[1], u[2], ct, InviteBody(rid, GoodChan)) :
             u \in InviteUrls, ct \in {JsonCT, TextCT},
             rid \in {GoodRid, IntNum(-1)} }
    \cup { Request("POST", u[1], u[2], JsonCT, RemoveBody(aid)) :
             u \in RemoveUrls, aid \in {Str(Agent1), IntNum(123)} }

\* the requests tried under the configurations that set every key
AllRequests ==
  CoreRequests \cup InviteRequests \cup RemoveRequests \cup VariantRequests
    \cup TokenRequests

EveryKeySet(e) == \A k \in Keys : ~Unset(e, k)

\* The requests a server is given.  Fastify looks up the route and parses
\* the body before the preHandler hooks run; the requests modelled for it
\* are those that reach the hooks: a registered route, and no empty body
\* declared as JSON.
Requests(s, e) ==
  LET R == IF EveryKeySet(e) THEN AllRequests ELSE CoreRequests IN
  IF s = "express" THEN R
  ELSE { r \in R :
           /\ fastifyRoute(r) # "none"
           /\ ~(r.body = NoBody /\ r.ctype.type = "application/json") }

\* the provisioning service's answers
AgentResponse1 ==
  UpstreamBody(TRUE, [agent_id |-> "agent-123", create_ts |-> 1234567890,
                      state |-> "RUNNING"])
AgentResponse2 ==
  UpstreamBody(TRUE, [agent_id |-> "agent-456", create_ts |-> 1,
                      state |-> "STARTING", channel |-> "extra"])
ErrorText ==
  UpstreamBody(FALSE, [text |-> "upstream failure text"])

UpstreamStatuses == {200, 201, 404, 503}
UpstreamBodies == {AgentResponse1, AgentResponse2, ErrorText}
TransportCauses == {"fetch failed", "The operation was aborted due to timeout"}

\* the values Date.now() returns: small numbers stand for the milliseconds
\* since the epoch, one just before a whole second and one on it
ClockValues == {1999, 2000}
NoTime == -1

\* the values Math.random() returns, as the digits of their base-36
\* fraction: 0, 1/2, one of six digits and one of eleven
RandomValues ==
  { <<>>, <<"i">>, <<"4","f","z","y","o","8">>,
    <<"k","0","q","7","x","2","m","v","y","r","1">> }
NoRandom == <<"none">>

NoAnswer == [kind |-> "none"]
Answered(status, body) == [kind |-> "response", status |-> status, body |-> body]
Failed(cause) == [kind |-> "error", cause |-> cause]

(***************************************************************************)
(* The state machine                                                       *)
(***************************************************************************)
\* fastify/src/routes/token.ts throws while the plugin is registered when
\* the identity credentials are unset, and start() exits the process
Starts(s, e) ==
  s = "express" \/ ~(Unset(e, "AGORA_APP_ID") \/ Unset(e, "AGORA_APP_CERTIFICATE"))

\* the connections on which requests arrive at once
MaxInFlight == 2
Slots == 1..MaxInFlight

\* a connection without a request
Idle ==
  [ pc |-> "idle", req |-> NoRequest, checks |-> <<>>, handler |-> "",
    call |-> NoCall, now |-> NoTime, answer |-> NoAnswer, resp |-> NoReply ]

\* the provisioning service has started and stopped no agent
NoLog == [returned |-> {}, removed |-> {}]

Init ==
  /\ server \in Servers
  /\ env \in Envs
  /\ running = Starts(server, env)
  /\ pc = "idle"
  /\ req = NoRequest
  /\ checks = <<>>
  /\ handler = ""
  /\ call = NoCall
  /\ calls = 0
  /\ answer = NoAnswer
  /\ now = NoTime
  /\ random = NoRandom
  /\ signed = NoToken
  /\ resp = NoReply
  /\ inflight = [i \in Slots |-> Idle]
  /\ log = NoLog

Accepts(r) == Middleware(server, env, r).reply = Next_

\* a middleware answers the request; the chain stops there
Reject(r) ==
  /\ running /\ pc = "idle"
  /\ ~SchemaRejects(server, r)
  /\ ~Accepts(r)
  /\ req' = r
  /\ checks' = Middleware(server, env, r).checks
  /\ resp' = Middleware(server, env, r).reply
  /\ pc' = "done"
  /\ UNCHANGED <<server, env, running, handler, call, calls, answer, now,
                 random, signed>>
  /\ UNCHANGED many

\* the request passed the chain and a handler ran until it answered or
\* suspended at await fetch(...); a handler reads the clock right before it
\* has a credential signed
Handle(r, name, out, timestamp) ==
  /\ running /\ pc = "idle"
  /\ Accepts(r)
  /\ Route(server, r) = name
  /\ req' = r
  /\ checks' = Middleware(server, env, r).checks
  /\ handler' = name
  /\ call' = out.call
  /\ calls' = IF out.call = NoCall THEN 0 ELSE 1
  /\ now' = IF out.signed = NoToken THEN NoTime ELSE timestamp
  /\ signed' = out.signed
  /\ resp' = out.reply
  /\ pc' = IF out.call = NoCall THEN "done" ELSE "awaiting"
  /\ UNCHANGED <<server, env, running, answer, random>>
  /\ UNCHANGED many

Invite(r, timestamp) ==
  Handle(r, "invite", InviteHandler(server, env, r.body, timestamp), timestamp)

\* GET /token: the route's own checks, then its handler
Token(r, timestamp, x) ==
  LET routed == TokenRoute(server, env, r, timestamp, x)
      hooks == Middleware(server, env, r).checks
  IN
  /\ running /\ pc = "idle"
  /\ Route(server, r) = "token"
  /\ SchemaRejects(server, r) \/ Accepts(r)
  /\ req' = r
  /\ checks' = IF server = "express" THEN hooks \o routed.checks
               ELSE IF SchemaRejects(server, r) THEN routed.checks
               ELSE routed.checks \o hooks
  /\ handler' = IF routed.handled THEN "token" ELSE ""
  /\ now' = IF routed.handled THEN timestamp ELSE NoTime
  /\ random' = IF routed.handled /\ Falsy(r.channel) THEN x ELSE NoRandom
  /\ signed' = routed.out.signed
  /\ resp' = routed.out.reply
  /\ pc' = "done"
  /\ UNCHANGED <<server, env, running, call, calls, answer>>
  /\ UNCHANGED many

Remove(r) ==
  Handle(r, "remove", RemoveHandler(server, env, r.body), NoTime)

Ping(r) == Handle(r, "ping", Replied(PingHandler(server)), NoTime)

\* no route matches: the framework's 404
NotFound(r) ==
  Handle(r, "none", Replied(Reply(404, [notFound |-> TRUE])), NoTime)

\* the provisioning service answers the call
UpstreamResponds(status, body) ==
  /\ pc = "awaiting"
  /\ answer' = Answered(status, body)
  /\ resp' = UpstreamResponse(server, call.kind, status, body)
  /\ pc' = "done"
  /\ UNCHANGED <<server, env, running, req, checks, handler, call, calls,
                 now, random, signed>>
  /\ UNCHANGED many

\* variant: a rejected fetch is attempted once more
UpstreamFails_retry(cause) ==
  /\ pc = "awaiting"
  /\ calls < 2
  /\ answer' = Failed(cause)
  /\ calls' = calls + 1
  /\ UNCHANGED <<server, env, running, pc, req, checks, handler, call, now,
                 random, signed, resp>>
  /\ UNCHANGED many

\* fetch rejects: the call could not complete
UpstreamFails(cause) ==
  /\ pc = "awaiting"
  /\ answer' = Failed(cause)
  /\ resp' = UpstreamFailure(server, call.kind, cause)
  /\ pc' = "done"
  /\ UNCHANGED <<server, env, running, req, checks, handler, call, calls,
                 now, random, signed>>
  /\ UNCHANGED many

\* the response is out; nothing of the request is kept
Finish ==
  /\ pc = "done"
  /\ pc' = "idle"
  /\ req' = NoRequest
  /\ checks' = <<>>
  /\ handler' = ""
  /\ call' = NoCall
  /\ calls' = 0
  /\ answer' = NoAnswer
  /\ now' = NoTime
  /\ random' = NoRandom
  /\ signed' = NoToken
  /\ resp' = NoReply
  /\ UNCHANGED <<server, env, running>>
  /\ UNCHANGED many

Next ==
  \/ \E r \in Requests(server, env) : Reject(r)
  \/ \E r \in Requests(server, env), timestamp \in ClockValues :
       Invite(r, timestamp)
  \/ \E r \in Requests(server, env), timestamp \in ClockValues,
          x \in RandomValues : Token(r, timestamp, x)
  \/ \E r \in Requests(server, env) : Remove(r)
  \/ \E r \in Requests(server, env) : Ping(r)
  \/ \E r \in Requests(server, env) : NotFound(r)
  \/ \E status \in UpstreamStatuses, body \in UpstreamBodies :
       UpstreamResponds(status, body)
  \/ \E cause \in TransportCauses : UpstreamFails(cause)
  \/ Finish

Spec == Init /\ [][Next]_vars

\* fetch settles: the provisioning service answers or the call fails
UpstreamSettles ==
  \/ \E status \in UpstreamStatuses, body \in UpstreamBodies :
       UpstreamResponds(status, body)
  \/ \E cause \in TransportCauses : UpstreamFails(cause)

\* every fetch settles, and the handler suspended at it is resumed
Live == Spec /\ WF_vars(UpstreamSettles)

(***************************************************************************)
(* Requests handled at once.  Node runs a handler without interruption up  *)
(* to its await fetch(...) and resumes it when that fetch settles; in      *)
(* between, other requests are received and other handlers resumed.  The   *)
(* provisioning service keeps what it returned and removed.                *)
(***************************************************************************)
Agent123 == <<"a","g","e","n","t","-","1","2","3">>

\* the configuration of the servers that handle requests at once: every
\* key set, the vendor being of no concern to the interleavings
CompleteEnvs == {EnvOf("microsoft", {})}

\* the requests that arrive at once: invitations to one channel by two
\* requesters, one with a channel name too short, removals of an agent the
\* service may have returned and of one it never returned, one without a
\* string id
ConcurrentRequests ==
  { Request("POST", PathInvite, <<>>, JsonCT, InviteBody(rid, chan)) :
      rid \in {GoodRid, Str(IdUser)}, chan \in {GoodChan} }
  \cup
  { Request("POST", PathInvite, <<>>, JsonCT, InviteBody(GoodRid, BadChan)) }
  \cup
  { Request("POST", PathRemove, <<>>, JsonCT, RemoveBody(aid)) :
      aid \in {Str(Agent1), Str(Agent123), IntNum(123)} }

ConcurrentStatuses == {200, 503}
ConcurrentBodies == {AgentResponse1, AgentResponse2}
ConcurrentCauses == {"fetch failed"}
ConcurrentClock == {2000}

ConcurrentInit ==
  /\ server \in Servers
  /\ env \in CompleteEnvs
  /\ running = Starts(server, env)
  /\ pc = "idle"
  /\ req = NoRequest
  /\ checks = <<>>
  /\ handler = ""
  /\ call = NoCall
  /\ calls = 0
  /\ answer = NoAnswer
  /\ now = NoTime
  /\ random = NoRandom
  /\ signed = NoToken
  /\ resp = NoReply
  /\ inflight = [i \in Slots |-> Idle]
  /\ log = NoLog

\* a middleware answers the request received on connection i
RejectIn(i, r) ==
  /\ running /\ inflight[i].pc = "idle"
  /\ ~Accepts(r)
  /\ inflight' = [inflight EXCEPT ![i] =
       [ Idle EXCEPT !.pc = "done", !.req = r,
                     !.checks = Middleware(server, env, r).checks,
                     !.resp = Middleware(server, env, r).reply ]]
  /\ UNCHANGED <<server, env, running, log>>
  /\ UNCHANGED one

\* the request received on connection i passed the chain and its handler
\* ran until it answered or suspended at await fetch(...)
HandleIn(i, r, name, out, timestamp) ==
  /\ running /\ inflight[i].pc = "idle"
  /\ Accepts(r)
  /\ Route(server, r) = name
  /\ inflight' = [inflight EXCEPT ![i] =
       [ pc |-> IF out.call = NoCall THEN "done" ELSE "awaiting",
         req |-> r,
         checks |-> Middleware(server, env, r).checks,
         handler |-> name,
         call |-> out.call,
         now |-> IF out.signed = NoToken THEN NoTime ELSE timestamp,
         answer |-> NoAnswer,
         resp |-> out.reply ]]
  /\ UNCHANGED <<server, env, running, log>>
  /\ UNCHANGED one

\* variant: an invitation to a channel for which a join call is awaited on
\* another connection is answered without a call of its own
InviteIn_deduplicated(i, r, timestamp) ==
  LET out == InviteHandler(server, env, r.body, timestamp)
      awaited == \E j \in Slots \ {i} :
                   /\ inflight[j].pc = "awaiting"
                   /\ inflight[j].call.kind = "join"
                   /\ inflight[j].call.properties.channel =
                        Field(r.body, "channel_name")
  IN HandleIn(i, r, "invite",
       IF awaited THEN Replied(ErrorReply(409, Msg("already invited")))
       ELSE out, timestamp)

InviteIn(i, r, timestamp) ==
  HandleIn(i, r, "invite", InviteHandler(server, env, r.body, timestamp),
           timestamp)

\* variant: the removal of an agent already removed is answered without a
\* call
RemoveIn_onceOnly(i, r) ==
  HandleIn(i, r, "remove",
    IF toString(Field(r.body, "agent_id")) \in log.removed
    THEN Replied(ErrorReply(404, Msg("no such agent")))
    ELSE RemoveHandler(server, env, r.body), NoTime)

RemoveIn(i, r) ==
  HandleIn(i, r, "remove", RemoveHandler(server, env, r.body), NoTime)

\* the agent ids the service has returned and removed after this answer
Logged(c, status, body) ==
  IF ~ResponseOk(status) THEN log
  ELSE IF c.kind = "join"
  THEN [log EXCEPT !.returned = @ \cup {body.content.agent_id}]
  ELSE [log EXCEPT !.removed = @ \cup {c.agent}]

\* the provisioning service answers the call of connection i; the handler
\* suspended there resumes
ServiceAnswers(i, status, body) ==
  /\ inflight[i].pc = "awaiting"
  /\ inflight' = [inflight EXCEPT ![i] =
       [ @ EXCEPT !.pc = "done",
                  !.answer = Answered(status, body),
                  !.resp = UpstreamResponse(server, inflight[i].call.kind,
                                            status, body) ]]
  /\ log' = Logged(inflight[i].call, status, body)
  /\ UNCHANGED <<server, env, running>>
  /\ UNCHANGED one

\* the fetch of connection i rejects; the handler suspended there resumes in
\* its catch block
ServiceFails(i, cause) ==
  /\ inflight[i].pc = "awaiting"
  /\ inflight' = [inflight EXCEPT ![i] =
       [ @ EXCEPT !.pc = "done",
                  !.answer = Failed(cause),
                  !.resp = UpstreamFailure(server, inflight[i].call.kind,
                                           cause) ]]
  /\ UNCHANGED <<server, env, running, log>>
  /\ UNCHANGED one

\* the response of connection i is out; nothing of the request is kept
Close(i) ==
  /\ inflight[i].pc = "done"
  /\ inflight' = [inflight EXCEPT ![i] = Idle]
  /\ UNCHANGED <<server, env, running, log>>
  /\ UNCHANGED one

ConcurrentNext ==
  \/ \E i \in Slots, r \in ConcurrentRequests : RejectIn(i, r)
  \/ \E i \in Slots, r \in ConcurrentRequests, timestamp \in ConcurrentClock :
       InviteIn(i, r, timestamp)
  \/ \E i \in Slots, r \in ConcurrentRequests : RemoveIn(i, r)
  \/ \E i \in Slots, status \in ConcurrentStatuses, body \in ConcurrentBodies :
       ServiceAnswers(i, status, body)
  \/ \E i \in Slots, cause \in ConcurrentCauses : ServiceFails(i, cause)
  \/ \E i \in Slots : Close(i)

Concurrent == ConcurrentInit /\ [][ConcurrentNext]_vars

(***************************************************************************)
(* Vocabulary of the properties                                            *)
(***************************************************************************)
\* a request is being handled or has been answered
Handling == pc # "idle"

\* the request is answered
Answered_ == pc = "done"

\* the configuration keys the deployment must set, by the reference of
\* environment variables: the TTS keys are those of the configured vendor
CommonKeys ==
  { "AGORA_APP_ID", "AGORA_APP_CERTIFICATE", "AGORA_CONVO_AI_BASE_URL",
    "AGORA_CUSTOMER_ID", "AGORA_CUSTOMER_SECRET", "LLM_URL", "LLM_TOKEN",
    "TTS_VENDOR" }
MicrosoftKeys ==
  { "MICROSOFT_TTS_KEY", "MICROSOFT_TTS_REGION", "MICROSOFT_TTS_VOICE_NAME",
    "MICROSOFT_TTS_RATE", "MICROSOFT_TTS_VOLUME" }
ElevenLabsKeys ==
  { "ELEVENLABS_API_KEY", "ELEVENLABS_VOICE_ID", "ELEVENLABS_MODEL_ID" }
VendorKeys(e) ==
  CASE e.TTS_VENDOR = "microsoft"  -> MicrosoftKeys
    [] e.TTS_VENDOR = "elevenlabs" -> ElevenLabsKeys
    [] OTHER                       -> {}

\* some key that validateEnvironment is documented to require is unset
ConfigMissing(e) == \E k \in CommonKeys \cup VendorKeys(e) : Unset(e, k)

\* the configuration is complete and names a supported vendor
ConfigComplete(e) ==
  ~ConfigMissing(e) /\ e.TTS_VENDOR \in {"microsoft", "elevenlabs"}

\* a POST to the literal URL /agent/invite with a JSON object as body
IsInviteRequest(r) ==
  /\ r.method = "POST" /\ r.path = PathInvite /\ r.query = <<>>
  /\ r.ctype = JsonCT /\ r.body # NoBody

IsString(v) == v.t = "string"
IsNumber(v) == v.t = "number"

\* a channel_name that the invite rules admit
ValidChannel(v) == IsString(v) /\ Len(v.s) >= 3 /\ Len(v.s) <= 64

\* requester ids that both servers admit
ValidRequesterIds == {Str(Id1234), Str(IdUser), IntNum(1234)}

(***************************************************************************)
(* C1  Removing with a missing or non-string agent_id fails validation     *)
(* before any upstream call.                                               *)
(***************************************************************************)
\* C1: whenever the request being handled is one the router dispatches to
\* the remove handler and its agent_id is missing or is not a string, the
\* middleware rejected it (no handler ran) and no leave call was made.
C1_RemoveValidatedBeforeCall ==
  ( /\ Handling
    /\ Route(server, req) = "remove"
    /\ ~IsString(Field(req.body, "agent_id")) )
  => (handler = "" /\ call = NoCall /\ calls = 0)

(***************************************************************************)
(* C2  A non-success answer to the join call is passed on with its status  *)
(* and body.                                                               *)
(***************************************************************************)
\* C2: when the provisioning service answered a join call with a status S
\* outside 200..299 and body B, the response has status S and the body
\* {error: "Failed to start conversation: S", details: B}.
C2_InviteUpstreamErrorPreserved ==
  ( /\ Answered_
    /\ call.kind = "join"
    /\ answer.kind = "response"
    /\ ~ResponseOk(answer.status) )
  => resp = Reply(answer.status,
                  [ error |-> MsgN("Failed to start conversation: ",
                                   answer.status),
                    details |-> answer.body ])

(***************************************************************************)
(* C3  A success answer to the join call is returned unchanged.            *)
(***************************************************************************)
\* C3: when the provisioning service answered a join call with a status in
\* 200..299 and a JSON body, the response has a success status and its
\* body is exactly that JSON value: no field added, dropped or rewritten.
C3_InviteSuccessUnchanged ==
  ( /\ Answered_
    /\ call.kind = "join"
    /\ answer.kind = "response"
    /\ ResponseOk(answer.status)
    /\ answer.body.json )
  => (ResponseOk(resp.status) /\ resp.body = answer.body.content)

\* a join call answered 201 with an agent record that has a fourth field
C3_Witness ==
  /\ Answered_
  /\ call.kind = "join"
  /\ answer = Answered(201, AgentResponse2)
  /\ resp.body = AgentResponse2.content

(***************************************************************************)
(* C4  A non-success answer to the leave call is passed on with its status *)
(* and body.                                                               *)
(***************************************************************************)
\* C4: when the provisioning service answered a leave call with a status S
\* outside 200..299 and body B, the response is an error with status S that
\* carries B.
C4_RemoveUpstreamErrorPreserved ==
  ( /\ Answered_
    /\ call.kind = "leave"
    /\ answer.kind = "response"
    /\ ~ResponseOk(answer.status) )
  => ( /\ resp.status = answer.status
       /\ "error" \in DOMAIN resp.body
       /\ "details" \in DOMAIN resp.body
       /\ resp.body.details = answer.body )

(***************************************************************************)
(* C5  The configuration check comes first.                                *)
(***************************************************************************)
\* C5: whenever the request being handled is one the router dispatches to
\* an agent handler and a required configuration key is unset, the request
\* was answered by the configuration check alone with status 500, whatever
\* its Content-Type and body: never 400 or 415, and no handler ran.
C5_ConfigurationErrorFirst ==
  ( /\ Handling
    /\ Route(server, req) \in {"invite", "remove"}
    /\ ConfigMissing(env) )
  => ( /\ resp.status = 500
       /\ checks = <<"validateEnvironment">>
       /\ handler = "" )

(***************************************************************************)
(* C6  A join call needs the whole configuration.                          *)
(***************************************************************************)
\* C6: whenever a join call has been sent, every required configuration key
\* is set, the LLM model included, and the vendor is a supported one.
C6_JoinNeedsWholeConfiguration ==
  call.kind = "join"
  => (ConfigComplete(env) /\ ~Unset(env, "LLM_MODEL"))

(***************************************************************************)
(* C7  requester_id given as a number                                      *)
(***************************************************************************)
NumericInvite ==
  /\ Handling
  /\ IsInviteRequest(req)
  /\ ConfigComplete(env)
  /\ IsNumber(req.body.requester_id)
  /\ ValidChannel(req.body.channel_name)

\* C7 as stated: an invite whose requester_id is a number (valid channel,
\* complete configuration) is accepted if and only if the number is a
\* non-negative integer, 0 included.
C7_NumberAcceptedIffNonNegativeInteger ==
  NumericInvite
  => ( handler = "invite"
       <=> (req.body.requester_id.k % 2 = 0 /\ req.body.requester_id.k >= 0) )

\* C7 amended: such an invite is accepted if and only if the number is a
\* positive integer; every other number, 0 included, is answered 400.
C7_NumberAcceptedIffPositiveInteger ==
  NumericInvite
  => /\ handler = "invite"
          <=> (req.body.requester_id.k % 2 = 0 /\ req.body.requester_id.k > 0)
     /\ handler # "invite" => (handler = "" /\ resp.status = 400)

\* a positive integer was accepted and 0 was refused as missing
C7_Witness ==
  /\ NumericInvite
  /\ req.body.requester_id = IntNum(0)
  /\ resp = ErrorReply(400, Msg("requester_id is required"))

(***************************************************************************)
(* C8  requester_id given as a string                                      *)
(***************************************************************************)
StringInvite ==
  /\ Handling
  /\ IsInviteRequest(req)
  /\ ConfigComplete(env)
  /\ IsString(req.body.requester_id)
  /\ ValidChannel(req.body.channel_name)

\* the characters of [a-zA-Z0-9-], written out
AlnumHyphenChars ==
  { "a","b","c","d","e","f","g","h","i","j","k","l","m","n","o","p","q",
    "r","s","t","u","v","w","x","y","z","A","B","C","D","E","F","G","H",
    "I","J","K","L","M","N","O","P","Q","R","S","T","U","V","W","X","Y",
    "Z","0","1","2","3","4","5","6","7","8","9","-" }

MatchesAlnumHyphen(s) ==
  s # <<>> /\ \A i \in DOMAIN s : s[i] \in AlnumHyphenChars

C9_ChannelAcceptedIffLength3To64 ==
  ( /\ Handling
    /\ IsInviteRequest(req)
    /\ ConfigComplete(env)
    /\ req.body.requester_id \in ValidRequesterIds )
  => /\ handler = "invite" <=> ValidChannel(req.body.channel_name)
     /\ ~ValidChannel(req.body.channel_name)
          => (handler = "" /\ resp.status = 400)

\* a channel name of exactly 64 characters was accepted
C9_Witness ==
  /\ Handling
  /\ IsInviteRequest(req)
  /\ req.body.requester_id \in ValidRequesterIds
  /\ req.body.channel_name = Str(Rep("c", 64))
  /\ handler = "invite"
  /\ call.kind = "join"

(***************************************************************************)
(* C10  enable_string_uid                                                  *)
(***************************************************************************)
LetterChars ==
  { "a","b","c","d","e","f","g","h","i","j","k","l","m","n","o","p","q",
    "r","s","t","u","v","w","x","y","z","A","B","C","D","E","F","G","H",
    "I","J","K","L","M","N","O","P","Q","R","S","T","U","V","W","X","Y",
    "Z" }

\* C10: in every join call, under every configuration and for every
\* request, enable_string_uid is true if and only if the string form of the
\* request's requester_id contains an ASCII letter.
C10_EnableStringUidIffLetter ==
  call.kind = "join"
  => ( call.properties.enable_string_uid
       <=> \E i \in DOMAIN toString(req.body.requester_id) :
             toString(req.body.requester_id)[i] \in LetterChars )

\* a join call for an identity of digits and a hyphen went out with the
\* flag false
C10_Witness ==
  /\ call.kind = "join"
  /\ req.body.requester_id = Str(IdHyph)
  /\ ~call.properties.enable_string_uid

(***************************************************************************)
(* C11  The TTS resolver                                                   *)
(***************************************************************************)
\* the vendor the invite handler passes to the resolver: Express passes
\* TTS_VENDOR, Fastify passes TTS_VENDOR or, when it is unset, "microsoft"
ResolverVendor ==
  IF server = "fastify" /\ Unset(env, "TTS_VENDOR") THEN "microsoft"
  ELSE env.TTS_VENDOR

\* the invite handler called the resolver, and nothing but the resolver
\* kept it from sending the join call
ResolverDecided ==
  /\ handler = "invite"
  /\ signed # NoToken
  /\ server = "express" => ~Unset(env, "TTS_VENDOR")
  /\ ~ToStringThrows(Field(req.body, "requester_id"))
  /\ ~FetchRejectsUrl(env)

\* the resolver returned a configuration of the Microsoft shape
ReturnedMicrosoft ==
  /\ call.kind = "join"
  /\ call.properties.tts.vendor = "microsoft"
  /\ call.properties.tts.params.region = env.MICROSOFT_TTS_REGION
  /\ call.properties.tts.params.voice_name = env.MICROSOFT_TTS_VOICE_NAME

\* the resolver returned a configuration of the ElevenLabs shape
ReturnedElevenLabs ==
  /\ call.kind = "join"
  /\ call.properties.tts.vendor = "elevenlabs"
  /\ call.properties.tts.params.voice_id = env.ELEVENLABS_VOICE_ID
  /\ call.properties.tts.params.model_id = env.ELEVENLABS_MODEL_ID

\* the resolver failed: the handler answered 500 and sent nothing
ResolverFailed == call = NoCall /\ resp.status = 500

AllSet(keys) == \A k \in keys : ~Unset(env, k)

ResolverMicrosoftKeys ==
  IF server = "express" THEN MicrosoftKeys
  ELSE {"MICROSOFT_TTS_KEY", "MICROSOFT_TTS_REGION", "MICROSOFT_TTS_VOICE_NAME"}

C12_ExpiryIsIssuancePlus3600 ==
  signed # NoToken
  => /\ now # NoTime
     /\ signed.tokenExpire = (now \div 1000) + 3600
     /\ signed.privilegeExpire = (now \div 1000) + 3600
     /\ call.kind = "join" => call.properties.token = signed
     /\ handler = "token" /\ resp.status = 200 => resp.body.token = signed

\* a client token was signed 1999 ms after the epoch for a request naming
\* its uid and channel: it expires at second 3601
C12_Witness ==
  /\ handler = "token"
  /\ req.uid = Str(Id1234)
  /\ req.channel = Str(IdUser)
  /\ now = 1999
  /\ signed.tokenExpire = 3601
  /\ signed.privilegeExpire = 3601

(***************************************************************************)
(* C13  GET /token without parameters                                      *)
(***************************************************************************)
\* the request names neither uid nor channel, is routed to the token route
\* and the identity credentials are configured
PlainTokenRequest ==
  /\ Handling
  /\ Route(server, req) = "token"
  /\ req.uid = Undefined /\ req.channel = Undefined
  /\ ~Unset(env, "AGORA_APP_ID") /\ ~Unset(env, "AGORA_APP_CERTIFICATE")

\* "ai-conversation-" + the decimal milliseconds + "-" + exactly six
\* characters from [a-z0-9]
IsGeneratedChannel(c, millis) ==
  LET head == ChannelPrefix \o DecStr(millis) \o <<"-">> IN
  /\ Len(c) = Len(head) + 6
  /\ SubSeq(c, 1, Len(head)) = head
  /\ \A i \in (Len(head) + 1)..Len(c) :
       c[i] \in Range(LowerChars) \cup Range(DigitChars)

\* C13: GET /token with neither uid nor channel is answered with uid "0"
\* and a generated channel "ai-conversation-<millis>-<six characters of
\* [a-z0-9]>", whatever the random source returns.
C13_DefaultUidAndGeneratedChannel ==
  PlainTokenRequest
  => /\ handler = "token"
     /\ resp.status = 200
     /\ resp.body.uid = <<"0">>
     /\ IsGeneratedChannel(resp.body.channel, now)

(***************************************************************************)
(* C14  The Express token route's validation                               *)
(***************************************************************************)
DigitSet == {"0","1","2","3","4","5","6","7","8","9"}

\* a string of one or more decimal digits
IsNumeral(v) ==
  IsString(v) /\ Len(v.s) >= 1 /\ \A i \in DOMAIN v.s : v.s[i] \in DigitSet

\* a token request reached the token route of a server that has its
\* identity credentials
TokenRequested(s) ==
  /\ server = s
  /\ Handling
  /\ Route(server, req) = "token"
  /\ ~Unset(env, "AGORA_APP_ID") /\ ~Unset(env, "AGORA_APP_CERTIFICATE")

\* the request was accepted: the handler ran, signed a token and answered 200
TokenAccepted ==
  handler = "token" /\ signed # NoToken /\ resp.status = 200

\* the request was rejected with 400 and nothing was signed
TokenRefused ==
  handler = "" /\ signed = NoToken /\ resp.status = 400

NotGiven(v) == v = Undefined \/ v = Str(<<>>)

C15_FastifyTokenUidIsNumber ==
  TokenRequested("fastify")
  => /\ TokenAccepted
          <=> ( /\ req.uid = Undefined \/ IsNumeral(req.uid)
                /\ \/ req.channel = Undefined
                   \/ /\ IsString(req.channel)
                      /\ Len(req.channel.s) >= 1 /\ Len(req.channel.s) <= 64
                      /\ MatchesAlnumHyphen(req.channel.s) )
     /\ TokenAccepted => IsNumeral(Str(resp.body.uid))

(***************************************************************************)
(* C16  The two servers' validation pipelines                              *)
(***************************************************************************)
\* the request being handled is one that both servers dispatch to the same
\* agent or ping route, under a configuration with which both start
ServedByBoth ==
  /\ Handling
  /\ Starts("express", env) /\ Starts("fastify", env)
  /\ expressRoute(req) = fastifyRoute(req)
  /\ expressRoute(req) \in {"invite", "remove", "ping"}
  /\ ~(req.body = NoBody /\ req.ctype.type = "application/json")

\* C16: for every request and configuration, the validation pipeline of
\* Express and that of Fastify reach the same decision: both pass the
\* request on, or both reject it with the same status and error message.
C16_PipelinesAgree ==
  ServedByBoth
  => /\ resp = Middleware(server, env, req).reply \/ Accepts(req)
     /\ expressMiddleware(env, req).reply = fastifyMiddleware(env, req).reply

(***************************************************************************)
(* C17  GET /ping                                                          *)
(***************************************************************************)
Pong == Reply(200, [message |-> "pong"])

\* C17 as stated: every GET /ping is answered {message: "pong"}, whatever
\* the request's other attributes and whichever configuration keys are set.
C17_PingAlwaysPong ==
  Handling /\ Route(server, req) = "ping" => resp = Pong

\* C17, amended: every GET /ping to a server whose identity credentials
\* (AGORA_APP_ID and AGORA_APP_CERTIFICATE) are set is answered {message:
\* "pong"}, whatever the request's other attributes and the other
\* configuration keys; when one of the two is unset, Express answers 500
\* "Agora credentials are not set" (and Fastify does not start).
C17_PingPongWhenCredentialsSet ==
  Handling /\ Route(server, req) = "ping"
  => IF Unset(env, "AGORA_APP_ID") \/ Unset(env, "AGORA_APP_CERTIFICATE")
     THEN /\ server = "express"
          /\ handler = ""
          /\ resp = ErrorReply(500, Msg("Agora credentials are not set"))
     ELSE handler = "ping" /\ resp = Pong

\* Express answered a GET /ping with the configuration error
C17_Witness ==
  /\ server = "express"
  /\ req.method = "GET" /\ req.path = PathPing /\ req.query = <<>>
  /\ Unset(env, "AGORA_APP_CERTIFICATE")
  /\ checks = <<"validateEnvironment">>
  /\ resp.status = 500

(***************************************************************************)
(* C18  Content-Type                                                       *)
(***************************************************************************)
\* C18: an answered request that bears a body and does not declare
\* application/json was rejected with 415 and no handler ran; a request that
\* declares application/json, with or without parameters, is not answered
\* 415.
C18_UnsupportedMediaType ==
  Answered_
  => /\ req.body # NoBody /\ req.ctype.type # "application/json"
          => resp.status = 415 /\ handler = ""
     /\ req.ctype.type = "application/json" => resp.status # 415

(***************************************************************************)
(* C19  Transport failures                                                 *)
(***************************************************************************)
\* C19: when the call to the provisioning service could not complete, the
\* client gets a 500 whose error message is generic: it is not the text of
\* the underlying cause.
C19_TransportErrorIsGeneric ==
  answer.kind = "error"
  => /\ resp.status = 500
     /\ resp.body.error.text # answer.cause

(***************************************************************************)
(* C20  remote_rtc_uids                                                    *)
(***************************************************************************)
\* s is the decimal numeral of the natural number n
IsNumeralOf(s, n) ==
  /\ IsNumeral(Str(s))
  /\ Len(s) > 1 => s[1] # "0"
  /\ DecVal(s) = n

\* s is the string form of the JSON value v: the string itself, or the
\* numeral of an integer, with its sign
IsStringForm(s, v) ==
  CASE IsString(v) -> s = v.s
    [] IsNumber(v) /\ v.k % 2 = 0 /\ v.k >= 0 -> IsNumeralOf(s, v.k \div 2)
    [] IsNumber(v) /\ v.k % 2 = 0 /\ v.k < 0 ->
         /\ Len(s) >= 2 /\ s[1] = "-"
         /\ IsNumeralOf(SubSeq(s, 2, Len(s)), (-v.k) \div 2)
    [] OTHER -> s = toString(v)

\* C20: in every join call remote_rtc_uids is a list of exactly one element,
\* the string form of the request's requester_id.
C20_RemoteUidsIsRequesterString ==
  call.kind = "join"
  => /\ Len(call.properties.remote_rtc_uids) = 1
     /\ IsStringForm(call.properties.remote_rtc_uids[1],
                     req.body.requester_id)

\* a join call for the number 1234 went out with remote_rtc_uids ["1234"]
C20_Witness ==
  /\ call.kind = "join"
  /\ req.body.requester_id = IntNum(1234)
  /\ call.properties.remote_rtc_uids = <<Id1234>>
  /\ ~call.properties.enable_string_uid

(***************************************************************************)
(* C21: the modality lists of a join call                                  *)
(***************************************************************************)
JoinSent == call # NoCall /\ call.kind = "join"

SentInput  == call.properties.llm.input_modalities
SentOutput == call.properties.llm.output_modalities
GivenInput  == Field(req.body, "input_modalities")
GivenOutput == Field(req.body, "output_modalities")

\* C21 as stated: in every join call the input modalities are the caller's
\* when given and ["text"] when omitted, and the output modalities are the
\* caller's when given and ["text","audio"] when omitted.
C21_ModalitiesCallerOrFixedDefault ==
  JoinSent =>
    /\ SentInput = (IF GivenInput = Undefined THEN Arr(<<"text">>)
                    ELSE GivenInput)
    /\ SentOutput = (IF GivenOutput = Undefined THEN Arr(<<"text", "audio">>)
                     ELSE GivenOutput)

\* C21: in every join call of the Express server a modality list is the
\* caller's when the caller gave one (null counts as omitted), else the
\* comma-separated list configured in INPUT_MODALITIES / OUTPUT_MODALITIES
\* when that key is set, else ["text"] / ["text","audio"]; in every join call
\* of the Fastify server it is the caller's value when the field is present
\* (null included), else ["text"] / ["text","audio"].
C21_ModalitiesCallerThenConfiguredThenDefault ==
  JoinSent =>
    IF server = "express"
    THEN /\ SentInput =
              (IF GivenInput \notin {Undefined, Null} THEN GivenInput
               ELSE IF env.INPUT_MODALITIES = "text,audio"
               THEN Arr(<<"text", "audio">>)
               ELSE Arr(<<"text">>))
         /\ SentOutput =
              (IF GivenOutput \notin {Undefined, Null} THEN GivenOutput
               ELSE IF env.OUTPUT_MODALITIES = "audio"
               THEN Arr(<<"audio">>)
               ELSE Arr(<<"text", "audio">>))
    ELSE /\ SentInput = (IF GivenInput = Undefined THEN Arr(<<"text">>)
                         ELSE GivenInput)
         /\ SentOutput = (IF GivenOutput = Undefined
                          THEN Arr(<<"text", "audio">>) ELSE GivenOutput)

\* the Express server sends the configured input list for a caller that
\* gave none
C21_Witness ==
  /\ JoinSent /\ server = "express"
  /\ GivenInput = Undefined
  /\ ~Unset(env, "INPUT_MODALITIES")
  /\ SentInput = Arr(<<"text", "audio">>)

(***************************************************************************)
(* C22: one upstream call per request, no second attempt                   *)
(***************************************************************************)
\* the provisioning service refused the call or the call did not complete
UpstreamFailed ==
  \/ answer.kind = "error"
  \/ answer.kind = "response" /\ ~ResponseOk(answer.status)

\* the response tells the client of a failure
FailureResponse ==
  /\ resp.status >= 400
  /\ "error" \in DOMAIN resp.body

C22_AtMostOneCall ==
  /\ calls <= 1
  /\ calls = 1 <=> call # NoCall
  /\ call # NoCall =>
       \/ handler = "invite" /\ call.kind = "join"
       \/ handler = "remove" /\ call.kind = "leave"
  /\ UpstreamFailed => pc = "done" /\ calls = 1 /\ FailureResponse

\* after the service has answered or the call has failed, the request ends
\* with the response it was given: no call is added and the response is not
\* replaced
C22_NoSecondAttempt ==
  /\ calls' > calls => pc = "idle" /\ calls' = 1
  /\ answer # NoAnswer =>
       /\ pc' = "idle" /\ calls' = 0 /\ call' = NoCall
       /\ resp # NoReply
  /\ pc = "awaiting" => /\ call' = call /\ calls' = calls
                        /\ pc' = "done" /\ resp' # NoReply

\* C22: each invite request causes at most one join call and each remove
\* request at most one leave call; an upstream failure (an error answer or a
\* transport error) is never followed by a second attempt for the same
\* request, and produces exactly one client-visible failure response.
C22_OneCallNoRetry == []C22_AtMostOneCall /\ [][C22_NoSecondAttempt]_vars

\* a join call failed in transport and the client was told so
C22_Witness ==
  /\ pc = "done" /\ handler = "invite"
  /\ answer.kind = "error" /\ calls = 1
  /\ resp.status = 500

(***************************************************************************)
(* C23: a removal is handled without regard to what happened before        *)
(***************************************************************************)
\* the removal on connection i was passed to the handler
RemoveHandled(i) == inflight[i].handler = "remove"

C23_LeaveCallForItsAgent ==
  \A i \in Slots :
    RemoveHandled(i) =>
      /\ inflight[i].call.kind = "leave"
      /\ inflight[i].call.agent = Field(inflight[i].req.body, "agent_id").s
      /\ inflight[i].call.app = env.AGORA_APP_ID

\* receiving a removal changes neither the configuration, nor the service's
\* record, nor any other request in flight
C23_NothingKept ==
  /\ server' = server /\ env' = env /\ running' = running
  /\ \A i \in Slots :
       inflight[i].pc = "idle" /\ inflight'[i].handler = "remove" =>
         /\ log' = log
         /\ \A j \in Slots \ {i} : inflight'[j] = inflight[j]

\* C23: a valid remove request issues exactly one leave call for its
\* agent_id whatever happened before (whether the service ever returned that
\* id, whether the agent was removed already, however many requests
\* preceded), and handling it changes no server-side state.
C23_RemoveRegardlessOfHistory ==
  []C23_LeaveCallForItsAgent /\ [][C23_NothingKept]_vars

\* a leave call is awaited for an agent the service never returned and has
\* already removed once
C23_Witness ==
  \E i \in Slots :
    /\ inflight[i].pc = "awaiting"
    /\ inflight[i].call.kind = "leave"
    /\ inflight[i].call.agent = Agent1
    /\ Agent1 \in log.removed
    /\ log.returned # {}

(***************************************************************************)
(* C24: invitations handled at once                                        *)
(***************************************************************************)
InviteHandled(i) == inflight[i].handler = "invite"

\* the response a request is given for the answer to a call
OwnOutcome(a) ==
  CASE a.kind = "error" -> {ErrorReply(500, Msg(a.cause))}
    [] a.kind = "response" /\ ResponseOk(a.status) ->
         {Reply(200, a.body.content)}
    [] a.kind = "response" /\ ~ResponseOk(a.status) ->
         { ErrorReply(500, MsgN("Failed to start conversation: ", a.status)),
           Reply(a.status,
                 [ error |-> MsgN("Failed to start conversation: ", a.status),
                   details |-> a.body ]) }

C24_OwnCallOwnAnswer ==
  \A i \in Slots :
    InviteHandled(i) =>
      /\ inflight[i].call.kind = "join"
      /\ inflight[i].call.properties.channel =
           Field(inflight[i].req.body, "channel_name")
      /\ inflight[i].call.properties.remote_rtc_uids =
           <<Field(inflight[i].req.body, "requester_id").s>>
      /\ inflight[i].pc = "awaiting" =>
           inflight[i].answer = NoAnswer /\ inflight[i].resp = NoReply
      /\ inflight[i].pc = "done" =>
           /\ inflight[i].answer # NoAnswer
           /\ inflight[i].resp \in OwnOutcome(inflight[i].answer)

\* a step concerns one request: the others in flight keep their call, their
\* answer and their response; an awaited call stays until it is answered
C24_OthersUntouched ==
  \A i \in Slots :
    inflight'[i] # inflight[i] =>
      /\ \A j \in Slots \ {i} : inflight'[j] = inflight[j]
      /\ inflight[i].pc = "awaiting" =>
           /\ inflight'[i].pc = "done"
           /\ inflight'[i].call = inflight[i].call
           /\ inflight'[i].req = inflight[i].req

\* C24: under every interleaving of concurrent invite requests, the same
\* channel included, each valid invite issues its own join call and receives
\* the response to its own call; no invite is suppressed or merged with
\* another, and its outcome does not depend on the other requests in flight.
C24_ConcurrentInvitesIndependent ==
  []C24_OwnCallOwnAnswer /\ [][C24_OthersUntouched]_vars

\* two invitations to one channel were both provisioned, each answered with
\* the agent of its own call
C24_Witness ==
  \E i, j \in Slots :
    /\ i # j
    /\ InviteHandled(i) /\ InviteHandled(j)
    /\ inflight[i].pc = "done" /\ inflight[j].pc = "done"
    /\ Field(inflight[i].req.body, "channel_name") =
         Field(inflight[j].req.body, "channel_name")
    /\ inflight[i].resp = Reply(200, AgentResponse1.content)
    /\ inflight[j].resp = Reply(200, AgentResponse2.content)

(***************************************************************************)
(* C25: the tts value of a join call                                       *)
(***************************************************************************)
SentTts == call.properties.tts

\* the name under which the ElevenLabs key travels: ElevenLabsTTSParams of
\* the Express server declares api_key, the Fastify guide sends key
ElevenLabsKeyField == IF server = "express" THEN "api_key" ELSE "key"

MicrosoftFields == {"key", "region", "voice_name", "rate", "volume"}
ElevenLabsFields == {ElevenLabsKeyField, "voice_id", "model_id"}

RequesterIdRules(b) ==
  LET requester_id == Field(b, "requester_id") IN
  IF Falsy(requester_id)
  THEN ErrorReply(400, Msg("requester_id is required"))
  ELSE IF TypeOf(requester_id) = "string" /\ TrimIsEmpty(requester_id.s)
  THEN ErrorReply(400, Msg("requester_id cannot be empty"))
  ELSE IF TypeOf(requester_id) = "number"
          /\ (~IsInteger(requester_id) \/ requester_id.k < 0)
  THEN ErrorReply(400,
         Msg("requester_id must be a positive integer when provided as a number"))
  ELSE IF TypeOf(requester_id) \notin {"string", "number"}
  THEN ErrorReply(400, Msg("requester_id must be a string or number"))
  ELSE Next_

\* the channel_name rules, all of them
ChannelNameRules(b) ==
  LET channel_name == Field(b, "channel_name") IN
  IF Falsy(channel_name)
  THEN ErrorReply(400, Msg("channel_name is required"))
  ELSE IF TypeOf(channel_name) # "string"
  THEN ErrorReply(400, Msg("channel_name must be a string"))
  ELSE IF Len(channel_name.s) < 3 \/ Len(channel_name.s) > 64
  THEN ErrorReply(400,
         Msg("channel_name length must be between 3 and 64 characters"))
  ELSE Next_

\* the agent_id rules
AgentIdRules(b) ==
  LET agent_id == Field(b, "agent_id") IN
  IF Falsy(agent_id)
  THEN ErrorReply(400, Msg("agent_id is required"))
  ELSE IF TypeOf(agent_id) # "string"
  THEN ErrorReply(400, Msg("agent_id must be a string"))
  ELSE Next_

BodyPresence(r) ==
  IF r.method = "POST" /\ BodyIsEmpty(r.body)
  THEN ErrorReply(400, Msg("Request body is required"))
  ELSE Next_

\* the checks in the order stated, the field rules being those of the route
\* the request is dispatched to
StatedChecks(e, r) ==
  <<validateEnvironment(e, ReqPath(r)), validateContentType(r),
    BodyPresence(r)>>
  \o (CASE r.method = "POST" /\ expressRoute(r) = "invite" ->
             <<RequesterIdRules(r.body), ChannelNameRules(r.body)>>
        [] r.method = "POST" /\ expressRoute(r) = "remove" ->
             <<AgentIdRules(r.body)>>
        [] OTHER -> <<>>)

\* the response of the first check that fails, Next_ when none does
FirstFailure(results) ==
  IF \A n \in DOMAIN results : results[n] = Next_ THEN Next_
  ELSE results[CHOOSE n \in DOMAIN results :
                 /\ results[n] # Next_
                 /\ \A m \in 1..(n - 1) : results[m] = Next_]

\* C26 as stated: the Express pipeline runs its checks in the order
\* configuration, Content-Type, body presence, route field rules
\* (requester_id before channel_name); a rejected request is given the
\* response of the first failing check in this order, and a route handler
\* runs only after all checks that apply to the request have passed.
C26_ChecksInOrderThenHandler ==
  server = "express" /\ Handling /\ expressRoute(req) \in {"invite", "remove"} =>
    LET first == FirstFailure(StatedChecks(env, req)) IN
    /\ first # Next_ => handler = "" /\ resp = first
    /\ handler # "" => first = Next_

\* the part of C26 that concerns the literal paths: the response of a
\* rejected request is that of the first failing field rule, all
\* requester_id rules being tried before the channel_name rules
C26_FieldRulesInStatedOrder ==
  server = "express" /\ Handling /\ ReqPath(req) \in {PathInvite, PathRemove} =>
    LET first == FirstFailure(StatedChecks(env, req)) IN
    first # Next_ => handler = "" /\ resp = first

(***************************************************************************)
(* C27: the invite handler's work                                          *)
(***************************************************************************)
\* the invite handler signed a credential or sent the join call
InviteWork ==
  handler = "invite" /\ (signed # NoToken \/ call.kind = "join")

\* the body satisfies the invite field rules of the server
InviteFieldRulesHold ==
  IF server = "express" THEN validateInviteBody(req.body) = Next_
  ELSE fastifyValidateInviteBody(req.body) = Next_

\* the configuration passes the server's check of an agent route
AgentConfigurationPasses ==
  IF server = "express" THEN validateEnvironment(env, PathInvite) = Next_
  ELSE fastifyValidateEnvironment(env, PathInvite) = Next_

\* C27: the invite handler's work (signing an agent credential and calling
\* the join endpoint) happens only for requests whose body satisfies the
\* invite field rules and whose configuration check passed, for every URL
\* the router dispatches to the invite handler.
C27_InviteWorkOnlyAfterChecks ==
  InviteWork => InviteFieldRulesHold /\ AgentConfigurationPasses

(***************************************************************************)
(* C28: the handler's TTS resolution after the environment check           *)
(***************************************************************************)
\* the errors of the TTS resolution inside the invite handlers
ResolutionErrors ==
  { "TTS_VENDOR is not set",
    "Missing Microsoft TTS environment variables",
    "Missing ElevenLabs environment variables",
    "Microsoft TTS configuration missing",
    "ElevenLabs TTS configuration missing",
    "Unsupported TTS vendor: " }

\* the invite handler answered with an error of its TTS resolution
ResolutionFailedInHandler ==
  /\ handler = "invite" /\ pc = "done" /\ answer = NoAnswer
  /\ "error" \in DOMAIN resp.body
  /\ resp.body.error.text \in ResolutionErrors

\* C28: when the environment check has passed for a request to an agent
\* route, the invite handler's TTS resolution does not fail: none of
\* 'TTS_VENDOR is not set', 'Missing ... environment variables' and
\* 'Unsupported TTS vendor' is raised inside the handler.
C28_ResolutionNeverFailsInHandler ==
  handler = "invite" /\ "validateEnvironment" \in Range(checks) =>
    ~ResolutionFailedInHandler

\* the implication between the conditions, request aside: a configuration
\* that passes the check of the literal agent path resolves
C28_CheckedConfigurationResolves ==
  AgentConfigurationPasses =>
    IF server = "express" THEN getTTSConfig(env, env.TTS_VENDOR).ok
    ELSE fastifyGetTTSConfig(env, env.TTS_VENDOR).ok

(***************************************************************************)
(* C29: numeric identities                                                 *)
(***************************************************************************)
SentUids == call.properties.remote_rtc_uids

\* C29: in every join call, if enable_string_uid is false the single entry
\* of remote_rtc_uids is a non-empty string of decimal digits only; every
\* accepted requester_id that is not purely numeric is sent with
\* enable_string_uid true.
C29_IntegerUidIsDigitsOnly ==
  JoinSent /\ ~call.properties.enable_string_uid =>
    /\ Len(SentUids) = 1
    /\ SentUids[1] # <<>>
    /\ \A n \in DOMAIN SentUids[1] : IsDigit(SentUids[1][n])

(***************************************************************************)
(* C30: one response for every request                                     *)
(***************************************************************************)
\* a response is out exactly when the request is answered; a request a
\* check rejected went no further
C30_AnsweredOnce ==
  /\ pc = "done" <=> resp # NoReply
  /\ pc = "done" => resp # Next_ /\ resp.status > 0
  /\ pc = "done" /\ handler = "" =>
       call = NoCall /\ calls = 0 /\ answer = NoAnswer

\* the response of a request is not replaced: after it the request ends
C30_NotAnsweredTwice ==
  resp # NoReply => pc' = "idle" /\ resp' = NoReply

\* C30: every request receives exactly one response: a check that rejects a
\* request sends one response and stops the pipeline, a handler sends one
\* response on each of its paths, and, provided the upstream call eventually
\* returns or fails, every invite and remove request is eventually answered;
\* no request is answered twice and none is left unanswered.
C30_ExactlyOneResponse ==
  /\ []C30_AnsweredOnce
  /\ [][C30_NotAnsweredTwice]_vars
  /\ (pc = "awaiting") ~> (pc = "done")

\* a leave call failed in transport and the removal was answered 500
C30_Witness ==
  /\ pc = "done" /\ handler = "remove"
  /\ answer.kind = "error"
  /\ resp.status = 500

==============================================================================
